---- MODULE Spec2Model ----
(***************************************************************************)
(* A model of pebble-outreach: campaign dispatch, the follow-up engine,    *)
(* the job schedulers, template promotion and open tracking.               *)
(*                                                                         *)
(* The database tables (campaigns, email_templates, sent_emails) are the   *)
(* committed state; every coroutine that runs against them is a process    *)
(* whose steps are the stretches of code between two awaits that touch the *)
(* database or the transport.                                              *)
(***************************************************************************)
EXTENDS Integers, Sequences, FiniteSets, TLC

\* ------------------------------------------------------------------ bounds
\* Dispatch runs started in one behaviour.
MaxRuns == 2
\* Persistence failures (a commit or a write that raises) in one behaviour.
MaxFaults == 1
\* Times the operator sets the campaign back to active in one behaviour.
MaxActivations == 1
\* Follow-up ticks started in one behaviour.
MaxTicks == 2
\* The last day of the clock.
MaxNow == 4
\* Job triggers fired in one behaviour.
MaxFires == 3
\* Template-creating requests started in one behaviour.
MaxPromotions == 3
\* Pixel requests served in one behaviour.
MaxOpens == 3
\* Follow-up rules of the campaign.
MaxRules == 1
\* Parts (words and tokens) of a template.
MaxParts == 2

\* --------------------------------------------------------------- constants
\* A NULL column value (ids and timestamps start at 1).
NULL == 0

\* The contacts of the campaign (Contact.id).
Contacts == {1, 2}

\* The coroutines that may execute process_and_send_campaign at one time
\* (one per HTTP request in flight); a request takes the first free one.
Runs == {1, 2}

\* SentEmail.status values that the eligibility query treats as
\* "successfully processed".
SuccessStatuses == {"sent", "delivered", "opened", "clicked", "replied"}

\* The statuses _is_campaign_sendable accepts.
SendableStatuses == {"active", "sending", "pending"}

VARIABLES
    campaign_status,   \* campaigns.status as committed ("none": no such row)
    email_templates,   \* email_templates rows: sequence of [is_primary]
    contacts,          \* contacts rows: [Contacts -> [has_email, unsubscribed]]
    sent_emails,       \* sent_emails rows as committed, id = position
    run,               \* the state of each process_and_send_campaign coroutine
    started,           \* number of dispatch runs begun so far
    faults,            \* number of persistence failures so far
    activations,       \* number of operator re-activations so far
    delivered,         \* history: successful transport sends per contact
    overlapped,        \* history: two dispatch runs were in flight together
    follow_up_rules,   \* follow_up_rules rows, id = position
    now,               \* the clock (datetime.utcnow), in days
    tick,              \* the state of each worker's process_due_follow_ups job
    hist,              \* history: the follow-up tick that completed last
    app_env,           \* settings.APP_ENV of the deployment
    scheduler_procs,   \* the server processes whose scheduler has started
    job_instances,     \* running executions of each job in each process
    job_log,           \* history: per job, ticks fired, executed and skipped
    job_db,            \* the session (db) each running job execution holds
    db_sessions,       \* the sessions get_db has made, those still open, and
                       \* history: how the executions holding one ended
    promo,             \* the state of each template-creating request
    promotions,        \* number of template-creating requests so far
    opens,             \* history: per ledger record, the recorded open events
    open_requests,     \* number of pixel requests served so far
    pixel_reply,       \* the outcome of the pixel request served last
    sender,            \* the state of each worker's send_pending_emails job
    handed,            \* history: per ledger record, transport calls of the
                       \* draft sender
    unsub_staged,      \* history: the drafts whose contact unsubscribed
                       \* while they were staged and in no sender's batch
    accepted,          \* history: per ledger record, transport calls of the
                       \* draft sender that succeeded
    senders_overlapped,\* history: two draft sender jobs were in flight
                       \* together
    open_reads,        \* per pixel request in flight: the record it read
    rule_reply,        \* the outcome of the rule request served last
    rendering          \* the template rendered last: its inputs and output

\* The variables of the follow-up engine.
followVars == <<follow_up_rules, now, tick, hist, rule_reply>>

\* The variables only the dispatch run uses.
dispatchVars == <<campaign_status, run, started, activations, delivered,
                  overlapped>>

\* The variables of the schedulers, of the template requests and of the
\* open tracking.
schedVars == <<app_env, scheduler_procs, job_instances, job_log, job_db,
               db_sessions>>
promoVars == <<promo, promotions, rendering>>
trackVars == <<opens, open_requests, pixel_reply, open_reads>>
draftVars == <<sender, handed, unsub_staged, accepted, senders_overlapped>>
serviceVars == <<schedVars, promoVars, trackVars, draftVars>>

vars == <<campaign_status, email_templates, contacts, sent_emails, run,
          started, faults, activations, delivered, overlapped,
          follow_up_rules, now, tick, hist, app_env, scheduler_procs,
          job_instances, job_log, promo, promotions, opens,
          open_requests,
          sender, handed, unsub_staged, accepted, senders_overlapped,
          job_db, db_sessions, pixel_reply, open_reads, rule_reply,
          rendering>>

\* ------------------------------------------------------------------ tables

\* A sent_emails row as the dispatch run builds it (SentEmailCreate).
NewSentEmail(contact_id, template_id, status, reason, sent_at, token) ==
    [ contact_id             |-> contact_id,
      email_template_id      |-> template_id,
      status                 |-> status,
      status_reason          |-> reason,
      sent_at                |-> sent_at,
      is_follow_up           |-> FALSE,
      follows_up_on_email_id |-> NULL,
      triggered_by_rule_id   |-> NULL,
      tracking_pixel_id      |-> token,
      open_count             |-> 0,
      opened_at              |-> NULL,
      last_opened_at         |-> NULL,
      first_opened_ip        |-> NULL ]

\* The ids of a table held as a sequence.
Ids(table) == 1..Len(table)

\* The ascending sequence of the elements of a finite set of integers
\* (the order in which the rows of a query are visited).
RECURSIVE SetToSeq(_)
SetToSeq(S) ==
    IF S = {} THEN <<>>
    ELSE LET m == CHOOSE x \in S : \A y \in S : x <= y
         IN  <<m>> \o SetToSeq(S \ {m})

\* ---------------------------------------------------- campaigns/db_operations

\* db_get_primary_template_for_campaign: the ids of the rows the query matches
\* (scalar_one_or_none returns the row when there is one, None when there is
\* none, and raises when there are several).
PrimaryTemplates(templates) ==
    {t \in Ids(templates) : templates[t].is_primary}

\* db_get_eligible_contacts_for_campaign_sending without the subquery:
\* every contact of the campaign.
EveryContact(ledger) == Contacts

\* db_get_eligible_contacts_for_campaign_sending: the contacts of the campaign
\* that are not in the subquery of contacts with an initial (is_follow_up =
\* False) record in a successful status.  No unsubscribed filter.
EligibleContacts(ledger) ==
    {c \in Contacts :
        ~\E e \in Ids(ledger) :
            /\ ledger[e].contact_id = c
            /\ ledger[e].is_follow_up = FALSE
            /\ ledger[e].status \in SuccessStatuses}

\* ------------------------------------------------- campaigns/sending_service

\* _is_campaign_sendable accepting every status.
IsCampaignSendableAlways(status) == status = status

\* _is_campaign_sendable
IsCampaignSendable(status) == status \in SendableStatuses

\* _update_final_campaign_status with a partly failed batch left active.
FinalCampaignStatusKeepsActive(successful_sends, failed_sends) ==
    IF failed_sends > 0 /\ successful_sends > 0 THEN "active"
    ELSE IF failed_sends > 0 /\ successful_sends = 0 THEN "failed"
    ELSE "completed"

\* _update_final_campaign_status with a batch in which every send failed
\* reported as completed.
FinalCampaignStatusHidesFailure(successful_sends, failed_sends) ==
    IF failed_sends > 0 /\ successful_sends > 0 THEN "active_with_errors"
    ELSE "completed"

\* _update_final_campaign_status: the status chosen from the two counters.
FinalCampaignStatus(successful_sends, failed_sends) ==
    IF failed_sends > 0 /\ successful_sends > 0 THEN "active_with_errors"
    ELSE IF failed_sends > 0 /\ successful_sends = 0 THEN "failed"
    ELSE "completed"

\* The run without a primary template leaving the campaign as failed.
NoTemplateStatusFailed == "failed"

\* The status written when the campaign has no primary template.
NoTemplateStatus == "error_no_template"

\* The status written when the loop or the batch commit raises.
BatchErrorStatus == "error_sending_batch"

IdleRun ==
    [ pc               |-> "idle",
      n                |-> 0,
      seen_status      |-> "none",
      template         |-> NULL,
      targets          |-> <<>>,
      i                |-> 1,
      pending          |-> <<>>,
      successful_sends |-> 0,
      failed_sends     |-> 0,
      all_ok           |-> TRUE,
      attempted        |-> 0,
      unaddressed      |-> 0,       \* targets rejected for having no address
      sends            |-> [c \in Contacts |-> 0],  \* transport calls per contact
      began            |-> FALSE,
      written          |-> {},
      end_status       |-> "none" ]

Ended(r) == run[r].pc \in {"returned", "raised"}
InFlight(r) == run[r].pc \notin {"idle", "returned", "raised"}

\* The coroutine of a run that has ended: how it ended ("returned" its
\* counters or "raised"), the committed campaign status at that instant, and
\* what the run did; its locals are gone.
EndedRun(r, how, end_status, wrote) ==
    [IdleRun EXCEPT !.pc = how,
                    !.successful_sends = run[r].successful_sends,
                    !.failed_sends = run[r].failed_sends,
                    !.attempted = run[r].attempted,
                    !.unaddressed = run[r].unaddressed,
                    !.began = run[r].began,
                    !.written = run[r].written \cup wrote,
                    !.end_status = end_status]

\* A persistence failure may still be injected.
MayFail == faults < MaxFaults

\* The tracking_pixel_id of the record run number n builds for contact c
\* (uuid4: distinct for distinct records).
Uuid(n, c) == <<n, c>>

\* process_and_send_campaign, lines 48-55: a request arrives and the campaign
\* row is loaded.
LoadCampaign(r) ==
    /\ ~InFlight(r)
    /\ \A q \in Runs : q < r => InFlight(q)
    /\ started < MaxRuns
    /\ started' = started + 1
    /\ overlapped' = (overlapped \/ \E q \in Runs \ {r} : InFlight(q))
    /\ IF campaign_status = "none"
       THEN run' = [run EXCEPT ![r] = [IdleRun EXCEPT !.pc = "raised",
                                                      !.n = started + 1]]
       ELSE run' = [run EXCEPT ![r] = [IdleRun EXCEPT !.pc = "begin",
                                                      !.n = started + 1,
                                                      !.seen_status = campaign_status]]
    /\ UNCHANGED <<campaign_status, email_templates, contacts, sent_emails,
                   faults, activations, delivered>>
    /\ UNCHANGED <<followVars, serviceVars>>

\* process_and_send_campaign, lines 57-63: the sendable check on the loaded
\* row, then _update_campaign_status(campaign, "sending"), which commits or,
\* when the commit raises, rolls back and raises.
BeginRun(r) ==
    /\ run[r].pc = "begin"
    /\ \/ /\ ~IsCampaignSendable(run[r].seen_status)
          /\ run' = [run EXCEPT ![r] = EndedRun(r, "returned", campaign_status, {})]
          /\ UNCHANGED <<campaign_status, faults>>
       \/ /\ IsCampaignSendable(run[r].seen_status)
          /\ campaign_status' = "sending"
          /\ run' = [run EXCEPT ![r].pc = "template",
                                ![r].began = TRUE,
                                ![r].written = @ \cup {"sending"}]
          /\ UNCHANGED faults
       \/ /\ IsCampaignSendable(run[r].seen_status)
          /\ MayFail
          /\ faults' = faults + 1
          /\ run' = [run EXCEPT ![r] = EndedRun(r, "raised", campaign_status, {})]
          /\ UNCHANGED campaign_status
    /\ UNCHANGED <<email_templates, contacts, sent_emails, started,
                   activations, delivered, overlapped>>
    /\ UNCHANGED <<followVars, serviceVars>>

\* process_and_send_campaign, lines 65-69: the primary template is fetched;
\* without one the campaign goes to error_no_template and the run raises.
GetTemplate(r) ==
    /\ run[r].pc = "template"
    /\ LET prim == PrimaryTemplates(email_templates) IN
       \/ /\ Cardinality(prim) = 1
          /\ run' = [run EXCEPT ![r].pc = "contacts",
                                ![r].template = CHOOSE t \in prim : TRUE]
          /\ UNCHANGED <<campaign_status, faults>>
       \/ /\ Cardinality(prim) > 1      \* scalar_one_or_none raises
          /\ run' = [run EXCEPT ![r] = EndedRun(r, "raised", campaign_status, {})]
          /\ UNCHANGED <<campaign_status, faults>>
       \/ /\ prim = {}
          /\ campaign_status' = NoTemplateStatus
          /\ run' = [run EXCEPT ![r] = EndedRun(r, "raised", NoTemplateStatus,
                                                    {NoTemplateStatus})]
          /\ UNCHANGED faults
       \/ /\ prim = {}
          /\ MayFail
          /\ faults' = faults + 1
          /\ run' = [run EXCEPT ![r] = EndedRun(r, "raised", campaign_status, {})]
          /\ UNCHANGED campaign_status
    /\ UNCHANGED <<email_templates, contacts, sent_emails, started,
                   activations, delivered, overlapped>>
    /\ UNCHANGED <<followVars, serviceVars>>

\* process_and_send_campaign, lines 71-75: the eligible contacts are read
\* from the committed ledger; with none the campaign is completed.
GetContacts(r) ==
    /\ run[r].pc = "contacts"
    /\ LET elig == EligibleContacts(sent_emails) IN
       \/ /\ elig # {}
          /\ run' = [run EXCEPT ![r].pc = "loop",
                                ![r].targets = SetToSeq(elig),
                                ![r].i = 1]
          /\ UNCHANGED <<campaign_status, faults>>
       \/ /\ elig = {}
          /\ campaign_status' = "completed"
          /\ run' = [run EXCEPT ![r] = EndedRun(r, "returned", "completed",
                                                    {"completed"})]
          /\ UNCHANGED faults
       \/ /\ elig = {}
          /\ MayFail
          /\ faults' = faults + 1
          /\ run' = [run EXCEPT ![r] = EndedRun(r, "raised", campaign_status, {})]
          /\ UNCHANGED campaign_status
    /\ UNCHANGED <<email_templates, contacts, sent_emails, started,
                   activations, delivered, overlapped>>
    /\ UNCHANGED <<followVars, serviceVars>>

\* The counting of a result with a failure left out of both counters.
CountOutcomeDropsFailure(st, success) ==
    IF success THEN [st EXCEPT !.successful_sends = @ + 1]
    ELSE [st EXCEPT !.all_ok = FALSE]

\* process_and_send_campaign, lines 81-86: the result of _process_contact
\* is counted.
CountOutcome(st, success) ==
    IF success THEN [st EXCEPT !.successful_sends = @ + 1]
    ELSE [st EXCEPT !.failed_sends = @ + 1, !.all_ok = FALSE]

\* The loop ending at the first target that fails.
NextTargetStopsAtFailure(st, success) ==
    [st EXCEPT !.pc = IF st.i = Len(st.targets) \/ ~success THEN "commit"
                      ELSE "loop",
               !.i = @ + 1]

\* process_and_send_campaign, lines 79-88: the loop goes on to the next
\* target whatever the result, and to the commit after the last.
NextTarget(st, success) ==
    [st EXCEPT !.pc = IF st.i = Len(st.targets) THEN "commit" ELSE "loop",
               !.i = @ + 1]

\* _process_contact (lines 132-189) and the counting of its result in the
\* loop (lines 80-88), for the next target of the run.
\*   - no address: (False, ...) before any send                 (139-140)
\*   - send_single_email_smtp returns (success, error)          (162-167)
\*   - the record is added to the session, not committed        (171-183)
\*   - an exception anywhere is swallowed: (False, str(e))      (188-189)
ProcessContact(r) ==
    /\ run[r].pc = "loop"
    /\ LET c    == run[r].targets[run[r].i]
           rec(ok) == NewSentEmail(c, run[r].template,
                                   IF ok THEN "sent" ELSE "failed",
                                   IF ok THEN "none" ELSE "error",
                                   IF ok THEN 1 ELSE NULL,
                                   Uuid(run[r].n, c))
           called == [run[r] EXCEPT !.attempted = @ + 1, !.sends[c] = @ + 1]
       IN
       \/ /\ ~contacts[c].has_email
          /\ run' = [run EXCEPT ![r] =
                       NextTarget(CountOutcome(
                           [run[r] EXCEPT !.unaddressed = @ + 1], FALSE),
                           FALSE)]
          /\ UNCHANGED <<delivered, faults>>
       \/ /\ contacts[c].has_email       \* the transport accepts the message
          /\ delivered' = [delivered EXCEPT ![c] = @ + 1]
          /\ run' = [run EXCEPT ![r] =
                       NextTarget(CountOutcome(
                           [called EXCEPT !.pending = Append(@, rec(TRUE))],
                           TRUE), TRUE)]
          /\ UNCHANGED faults
       \/ /\ contacts[c].has_email       \* the transport fails or times out
          /\ run' = [run EXCEPT ![r] =
                       NextTarget(CountOutcome(
                           [called EXCEPT !.pending = Append(@, rec(FALSE))],
                           FALSE), FALSE)]
          /\ UNCHANGED <<delivered, faults>>
       \/ /\ contacts[c].has_email       \* sent, then building the record raises
          /\ MayFail
          /\ faults' = faults + 1
          /\ delivered' = [delivered EXCEPT ![c] = @ + 1]
          /\ run' = [run EXCEPT ![r] =
                       NextTarget(CountOutcome(called, FALSE), FALSE)]
    /\ UNCHANGED <<campaign_status, email_templates, contacts, sent_emails,
                   started, activations, overlapped>>
    /\ UNCHANGED <<followVars, serviceVars>>

\* process_and_send_campaign, lines 90-96: the batch is committed when every
\* target succeeded or at least one did, and rolled back otherwise; a commit
\* that raises is rolled back in the except clause.
CommitBatch(r) ==
    /\ run[r].pc = "commit"
    /\ \/ /\ run[r].all_ok \/ run[r].successful_sends > 0
          /\ sent_emails' = sent_emails \o run[r].pending
          /\ run' = [run EXCEPT ![r].pc = "finalize", ![r].pending = <<>>]
          /\ UNCHANGED faults
       \/ /\ run[r].all_ok \/ run[r].successful_sends > 0
          /\ MayFail
          /\ faults' = faults + 1
          /\ run' = [run EXCEPT ![r].pc = "batch_error", ![r].pending = <<>>]
          /\ UNCHANGED sent_emails
       \/ /\ ~(run[r].all_ok \/ run[r].successful_sends > 0)
          /\ run' = [run EXCEPT ![r].pc = "finalize", ![r].pending = <<>>]
          /\ UNCHANGED <<sent_emails, faults>>
    /\ UNCHANGED <<campaign_status, email_templates, contacts, started,
                   activations, delivered, overlapped>>
    /\ UNCHANGED <<followVars, serviceVars>>

\* process_and_send_campaign, lines 97-100: after the rollback the campaign
\* is marked and the run raises.
MarkBatchError(r) ==
    /\ run[r].pc = "batch_error"
    /\ \/ /\ campaign_status' = BatchErrorStatus
          /\ run' = [run EXCEPT ![r] = EndedRun(r, "raised", BatchErrorStatus,
                                                    {BatchErrorStatus})]
          /\ UNCHANGED faults
       \/ /\ MayFail
          /\ faults' = faults + 1
          /\ run' = [run EXCEPT ![r] = EndedRun(r, "raised", campaign_status, {})]
          /\ UNCHANGED campaign_status
    /\ UNCHANGED <<email_templates, contacts, sent_emails, started,
                   activations, delivered, overlapped>>
    /\ UNCHANGED <<followVars, serviceVars>>

\* process_and_send_campaign, lines 103-106: _update_final_campaign_status
\* commits the status chosen from the counters and the run returns them.
FinalizeRun(r) ==
    /\ run[r].pc = "finalize"
    /\ LET status == FinalCampaignStatus(run[r].successful_sends,
                                         run[r].failed_sends) IN
       \/ /\ campaign_status' = status
          /\ run' = [run EXCEPT ![r] = EndedRun(r, "returned", status, {status})]
          /\ UNCHANGED faults
       \/ /\ MayFail
          /\ faults' = faults + 1
          /\ run' = [run EXCEPT ![r] = EndedRun(r, "raised", campaign_status, {})]
          /\ UNCHANGED campaign_status
    /\ UNCHANGED <<email_templates, contacts, sent_emails, started,
                   activations, delivered, overlapped>>
    /\ UNCHANGED <<followVars, serviceVars>>

\* ------------------------------------------------------- campaigns/routes

\* update_campaign (PUT /campaigns/{id}): the operator sets the status of a
\* campaign on which no run is in flight back to active, which is how a
\* finished campaign is triggered again.
ActivateCampaign ==
    /\ campaign_status # "none"
    /\ \A r \in Runs : ~InFlight(r)
    /\ activations < MaxActivations
    /\ activations' = activations + 1
    /\ campaign_status' = "active"
    /\ UNCHANGED <<email_templates, contacts, sent_emails, run, started,
                   faults, delivered, overlapped>>
    /\ UNCHANGED <<followVars, serviceVars>>

\* ------------------------------------------------- followups/db_operations

\* The worker processes that run a scheduler and so the follow-up job that
\* are modelled walking the ledger (two of uvicorn's workers).
Tickers == {1, 2}

\* db_get_active_follow_up_rules
ActiveRules(rules) == {k \in Ids(rules) : rules[k].is_active}

\* The status filter with an opened record counted as not opened.
QualifyingStatusWithOpened(condition, status) ==
    IF condition = "sent_anyway" THEN TRUE
    ELSE status \in {"sent", "delivered", "opened", "hard_bounced",
                     "soft_bounced"}

\* The statuses that satisfy a rule condition; an unknown condition string
\* filters nothing.
QualifyingStatus(condition, status) ==
    IF condition = "not_opened_within_delay"
    THEN status \in {"sent", "delivered", "hard_bounced", "soft_bounced"}
    ELSE IF condition = "not_clicked_within_delay"
    THEN status \in {"sent", "delivered", "opened", "hard_bounced",
                     "soft_bounced"}
    ELSE TRUE

\* db_get_initial_emails_for_rule with the cutoff one day late.
InitialEmailsForRuleDayEarly(ledger, people, rule, time) ==
    {e \in Ids(ledger) :
        /\ ledger[e].email_template_id = rule.original_email_template_id
        /\ ledger[e].sent_at # NULL
        /\ ledger[e].sent_at <= time - rule.delay_days + 1
        /\ ~people[ledger[e].contact_id].unsubscribed
        /\ ledger[e].follows_up_on_email_id = NULL
        /\ QualifyingStatus(rule.condition, ledger[e].status)}

\* db_get_initial_emails_for_rule without the join condition on
\* Contact.unsubscribed.
InitialEmailsForRuleAnyContact(ledger, people, rule, time) ==
    {e \in Ids(ledger) :
        /\ ledger[e].email_template_id = rule.original_email_template_id
        /\ ledger[e].sent_at # NULL
        /\ ledger[e].sent_at <= time - rule.delay_days
        /\ ledger[e].follows_up_on_email_id = NULL
        /\ QualifyingStatus(rule.condition, ledger[e].status)}

\* db_get_initial_emails_for_rule without the condition that the record
\* follows up on nothing.
InitialEmailsForRuleWithFollowUps(ledger, people, rule, time) ==
    {e \in Ids(ledger) :
        /\ ledger[e].email_template_id = rule.original_email_template_id
        /\ ledger[e].sent_at # NULL
        /\ ledger[e].sent_at <= time - rule.delay_days
        /\ ~people[ledger[e].contact_id].unsubscribed
        /\ QualifyingStatus(rule.condition, ledger[e].status)}

\* db_get_initial_emails_for_rule: the initial records of the rule's original
\* template that are old enough, whose contact is not unsubscribed, and
\* whose status satisfies the rule's condition.
InitialEmailsForRule(ledger, people, rule, time) ==
    {e \in Ids(ledger) :
        /\ ledger[e].email_template_id = rule.original_email_template_id
        /\ ledger[e].sent_at # NULL
        /\ ledger[e].sent_at <= time - rule.delay_days
        /\ ~people[ledger[e].contact_id].unsubscribed
        /\ ledger[e].follows_up_on_email_id = NULL
        /\ QualifyingStatus(rule.condition, ledger[e].status)}

\* db_has_follow_up_been_sent, weakened: only a follow-up that has left the
\* draft status counts as sent.
HasSentFollowUp(ledger, original_email_id, follow_up_rule_id) ==
    \E f \in Ids(ledger) :
        /\ ledger[f].follows_up_on_email_id = original_email_id
        /\ ledger[f].triggered_by_rule_id = follow_up_rule_id
        /\ ledger[f].status # "draft"

\* db_has_follow_up_been_sent: a record exists that follows up on the
\* original and was triggered by the rule.
HasFollowUpBeenSent(ledger, original_email_id, follow_up_rule_id) ==
    \E f \in Ids(ledger) :
        /\ ledger[f].follows_up_on_email_id = original_email_id
        /\ ledger[f].triggered_by_rule_id = follow_up_rule_id

\* ------------------------------------------------- followups/rules_service

\* The conditions db_get_initial_emails_for_rule knows.
ValidConditions ==
    {"not_opened_within_delay", "not_clicked_within_delay", "sent_anyway"}

\* The condition strings of a request: two the engine knows and one it does
\* not.
Conditions == {"not_opened_within_delay", "sent_anyway", "opened_twice"}

\* The delay_days of a request.
Delays == {0 - 1, 2}

\* An optional argument of update_rule: not passed (None), or a value.
Unset == <<>>
Passed(values) == {<<v>> : v \in values}

NoRuleReply == "none"

\* create_rule, lines 38-44: a negative delay raises
\* FollowUpRuleServiceError; the condition is not looked at.
CreateRuleRaises(delay_days, condition) ==
    delay_days < 0

\* create_rule and db_create_follow_up_rule: the rule is validated, then
\* added and committed.
CreateRule(original, follow_up, delay_days, condition, is_active) ==
    /\ Len(follow_up_rules) < MaxRules
    /\ IF CreateRuleRaises(delay_days, condition)
       THEN /\ rule_reply' = "rejected"
            /\ UNCHANGED follow_up_rules
       ELSE /\ follow_up_rules' =
                 Append(follow_up_rules,
                        [ original_email_template_id  |-> original,
                          follow_up_email_template_id |-> follow_up,
                          delay_days                  |-> delay_days,
                          condition                   |-> condition,
                          is_active                   |-> is_active ])
            /\ rule_reply' = "created"
    /\ UNCHANGED <<now, tick, hist, sent_emails, email_templates, contacts,
                   faults>>
    /\ UNCHANGED <<dispatchVars, serviceVars>>

\* update_rule, lines 83-102: a negative delay raises, and so does a request
\* without any field; the condition is not looked at.
UpdateRuleRaises(delay_days, condition, is_active) ==
    \/ delay_days # Unset /\ delay_days[1] < 0
    \/ delay_days = Unset /\ condition = Unset /\ is_active = Unset

\* update_rule and db_update_follow_up_rule: the request is validated; the
\* fields passed are set on the rule found and committed; without the rule
\* None is returned.
UpdateRule(rule_id, delay_days, condition, is_active) ==
    /\ IF UpdateRuleRaises(delay_days, condition, is_active)
       THEN /\ rule_reply' = "rejected"
            /\ UNCHANGED follow_up_rules
       ELSE IF rule_id \notin Ids(follow_up_rules)
       THEN /\ rule_reply' = "not_found"
            /\ UNCHANGED follow_up_rules
       ELSE /\ follow_up_rules' =
                 [follow_up_rules EXCEPT
                    ![rule_id].delay_days =
                        IF delay_days = Unset THEN @ ELSE delay_days[1],
                    ![rule_id].condition =
                        IF condition = Unset THEN @ ELSE condition[1],
                    ![rule_id].is_active =
                        IF is_active = Unset THEN @ ELSE is_active[1]]
            /\ rule_reply' = "updated"
    /\ UNCHANGED <<now, tick, hist, sent_emails, email_templates, contacts,
                   faults>>
    /\ UNCHANGED <<dispatchVars, serviceVars>>

\* ----------------------------------------------- followups/processor_service

IdleTick ==
    [ pc              |-> "idle",
      rules           |-> <<>>,
      ri              |-> 1,
      emails          |-> <<>>,
      ei              |-> 1,
      processed_rules |-> 0,
      created         |-> 0,
      clean           |-> TRUE,    \* no draft write of this tick raised
      repeats         |-> "no" ]   \* how this tick repeats the previous one

TickInFlight(w) == tick[w].pc \notin {"idle", "done"}

\* The tracking_pixel_id of the draft worker w stages for the original
\* record e under rule k (uuid4().hex: distinct for distinct records).
DraftUuid(w, e, k) == <<0 - w, e, k>>

\* How a tick that starts now repeats the tick that completed last:
\*   "no"     none has completed, or another tick is in flight;
\*   "tables" one has completed, and no table has changed since;
\*   "exact"  moreover the clock has not moved since, and no draft write of
\*            that tick raised.
Repeats(w) ==
    IF ~hist.done \/ \E q \in Tickers \ {w} : TickInFlight(q) THEN "no"
    ELSE IF hist.clean /\ hist.same_time THEN "exact"
    ELSE "tables"

\* process_due_follow_ups, lines 46-53: the scheduler of a worker fires the
\* job (at most one instance per scheduler; of the idle workers, which are
\* alike, the first is taken) and the active rules are loaded.
StartTick(w) ==
    /\ ~TickInFlight(w)
    /\ \A q \in Tickers : q < w => TickInFlight(q)
    /\ hist.started < MaxTicks
    /\ LET active == ActiveRules(follow_up_rules)
           fresh  == [IdleTick EXCEPT
                        !.rules = SetToSeq(active),
                        !.pc = IF active = {} THEN "done" ELSE "rule",
                        !.repeats = Repeats(w)]
       IN  tick' = [q \in Tickers |->
                      IF q = w THEN fresh
                      ELSE IF TickInFlight(q)
                           THEN [tick[q] EXCEPT !.repeats = "no"]
                           ELSE tick[q]]
    /\ hist' = [hist EXCEPT !.started = @ + 1]
    /\ UNCHANGED <<rule_reply, follow_up_rules, now, sent_emails, email_templates,
                   contacts, faults>>
    /\ UNCHANGED <<dispatchVars, serviceVars>>

\* process_due_follow_ups, lines 55-75: the next rule is taken and its
\* initial emails are fetched.
LoadInitialEmails(w) ==
    /\ tick[w].pc = "rule"
    /\ tick[w].ri <= Len(tick[w].rules)
    /\ LET rule   == follow_up_rules[tick[w].rules[tick[w].ri]]
           emails == InitialEmailsForRule(sent_emails, contacts, rule, now)
       IN  tick' = [tick EXCEPT
                      ![w].processed_rules = @ + 1,
                      ![w].emails = SetToSeq(emails),
                      ![w].ei = 1,
                      ![w].ri = IF emails = {} THEN @ + 1 ELSE @,
                      ![w].pc = IF emails = {} THEN "rule" ELSE "email"]
    /\ UNCHANGED <<rule_reply, follow_up_rules, now, hist, sent_emails, email_templates,
                   contacts, faults>>
    /\ UNCHANGED <<dispatchVars, serviceVars>>

\* The loop over the initial emails moves on to the next one, or to the next
\* rule after the last.
NextEmail(t) ==
    IF t.ei = Len(t.emails)
    THEN [t EXCEPT !.pc = "rule", !.ri = @ + 1, !.emails = <<>>, !.ei = 1]
    ELSE [t EXCEPT !.pc = "email", !.ei = @ + 1]

\* process_due_follow_ups, lines 77-86: the idempotency check for the next
\* initial email.
CheckFollowUp(w) ==
    /\ tick[w].pc = "email"
    /\ LET e == tick[w].emails[tick[w].ei]
           k == tick[w].rules[tick[w].ri]
       IN  tick' = [tick EXCEPT ![w] =
                      IF HasFollowUpBeenSent(sent_emails, e, k)
                      THEN NextEmail(tick[w])
                      ELSE [tick[w] EXCEPT !.pc = "create"]]
    /\ UNCHANGED <<rule_reply, follow_up_rules, now, hist, sent_emails, email_templates,
                   contacts, faults>>
    /\ UNCHANGED <<dispatchVars, serviceVars>>

\* The follow-up record written as already sent.
FollowUpDraftMarkedSent(c, template_id, e, k, token) ==
    [NewSentEmail(c, template_id, "sent", "none", 1, token)
        EXCEPT !.follows_up_on_email_id = e,
               !.triggered_by_rule_id = k]

\* process_due_follow_ups, lines 123-135: the SentEmailCreate of the
\* follow-up for the original record e of contact c under rule k: a draft
\* without a sent_at.
FollowUpDraft(c, template_id, e, k, token) ==
    [NewSentEmail(c, template_id, "draft", "none", NULL, token)
        EXCEPT !.follows_up_on_email_id = e,
               !.triggered_by_rule_id = k]

\* process_due_follow_ups, lines 96-142: the contact and the follow-up
\* template are fetched; without the template, or with an unsubscribed
\* contact, the email is skipped; otherwise a draft is written and committed
\* (db_create_sent_email_record), and a write that raises is swallowed.
CreateFollowUp(w) ==
    /\ tick[w].pc = "create"
    /\ LET e    == tick[w].emails[tick[w].ei]
           k    == tick[w].rules[tick[w].ri]
           rule == follow_up_rules[k]
           c    == sent_emails[e].contact_id
           draft == FollowUpDraft(c, rule.follow_up_email_template_id, e, k,
                                  DraftUuid(w, e, k))
       IN
       \/ /\ \/ rule.follow_up_email_template_id \notin Ids(email_templates)
             \/ contacts[c].unsubscribed
          /\ tick' = [tick EXCEPT ![w] = NextEmail(tick[w])]
          /\ UNCHANGED <<sent_emails, faults>>
       \/ /\ rule.follow_up_email_template_id \in Ids(email_templates)
          /\ ~contacts[c].unsubscribed
          /\ sent_emails' = Append(sent_emails, draft)
          /\ tick' = [tick EXCEPT ![w] =
                        NextEmail([tick[w] EXCEPT !.created = @ + 1])]
          /\ UNCHANGED faults
       \/ /\ rule.follow_up_email_template_id \in Ids(email_templates)
          /\ ~contacts[c].unsubscribed
          /\ MayFail
          /\ faults' = faults + 1
          /\ tick' = [tick EXCEPT ![w] =
                        NextEmail([tick[w] EXCEPT !.clean = FALSE])]
          /\ UNCHANGED sent_emails
    /\ UNCHANGED <<rule_reply, follow_up_rules, now, hist, email_templates, contacts>>
    /\ UNCHANGED <<dispatchVars, serviceVars>>

\* process_due_follow_ups, lines 145-146: after the last rule the counters
\* are returned.
FinishTick(w) ==
    /\ tick[w].pc = "rule"
    /\ tick[w].ri > Len(tick[w].rules)
    /\ tick' = [tick EXCEPT ![w].pc = "done", ![w].rules = <<>>,
                            ![w].ri = 1]
    /\ hist' = [hist EXCEPT !.done = TRUE,
                            !.clean = tick[w].clean,
                            !.same_time = TRUE]
    /\ UNCHANGED <<rule_reply, follow_up_rules, now, sent_emails, email_templates,
                   contacts, faults>>
    /\ UNCHANGED <<dispatchVars, serviceVars>>

\* Time passes: a day (the clock is in days and a tick takes far less, so
\* the day changes between ticks).
Advance ==
    /\ now < MaxNow
    /\ \A w \in Tickers : ~TickInFlight(w)
    /\ now' = now + 1
    /\ hist' = [hist EXCEPT !.same_time = FALSE]
    /\ UNCHANGED <<rule_reply, follow_up_rules, tick, sent_emails, email_templates,
                   contacts, faults>>
    /\ UNCHANGED <<dispatchVars, serviceVars>>

\* --------------------------------------------------------- the draft sender
\* The worker processes whose scheduler runs the draft sender job at one
\* time; a job takes the first free one.
Senders == {1, 2}

\* send_pending_emails: batch_limit.
BatchLimit == 50

IdleSender ==
    [ pc               |-> "idle",
      batch            |-> <<>>,
      bi               |-> 1,
      pixel            |-> NULL,    \* the tracking_pixel_id generated
      success          |-> FALSE,   \* what _send_single_email returned
      successful_sends |-> 0,
      failed_sends     |-> 0,
      marked           |-> {},      \* the records this job marked "sending"
      raised           |-> FALSE ]  \* send_pending_emails raised

SenderInFlight(d) == sender[d].pc \notin {"idle", "done"}

\* The tracking_pixel_id sender d generates for record e (uuid4: distinct
\* for distinct sends).
SendUuid(d, e) == <<d, e, handed[e], 0>>

\* A selection that takes the failed records again as well.
PendingEmailsWithFailed(ledger) ==
    LET pending == SetToSeq({e \in Ids(ledger) :
                               ledger[e].status \in
                                 {"draft", "pending_send", "failed"}})
    IN  IF Len(pending) <= BatchLimit THEN pending
        ELSE SubSeq(pending, 1, BatchLimit)

\* select(SentEmail).where(status.in_(['draft', 'pending_send']))
\* .order_by(created_at).limit(batch_limit)
PendingEmails(ledger) ==
    LET pending == SetToSeq({e \in Ids(ledger) :
                               ledger[e].status \in {"draft", "pending_send"}})
    IN  IF Len(pending) <= BatchLimit THEN pending
        ELSE SubSeq(pending, 1, BatchLimit)

\* The state of a sender that goes on to the next email of its batch.
NextPending(st) ==
    IF st.bi >= Len(st.batch)
    THEN [st EXCEPT !.pc = "done", !.batch = <<>>, !.bi = 1, !.pixel = NULL,
                    !.success = FALSE]
    ELSE [st EXCEPT !.pc = "email", !.bi = @ + 1, !.pixel = NULL,
                    !.success = FALSE]

\* The state of a sender whose send_pending_emails raised.
RaisedSender(st) ==
    [st EXCEPT !.pc = "done", !.batch = <<>>, !.bi = 1, !.pixel = NULL,
               !.success = FALSE, !.raised = TRUE]

\* scheduled_draft_email_sender_job and send_pending_emails, lines 39-56:
\* the scheduler of a worker fires the job (the SMTP configuration being
\* complete) and the pending emails are selected; without any the job
\* returns (0, 0).
SelectPending(d) ==
    /\ sender[d].pc = "idle"
    /\ \A q \in Senders : q < d => sender[q].pc # "idle"
    /\ LET pending == PendingEmails(sent_emails)
       IN  sender' = [sender EXCEPT ![d] =
                        [IdleSender EXCEPT
                            !.pc = IF pending = <<>> THEN "done" ELSE "email",
                            !.batch = pending]]
           /\ senders_overlapped' =
                (\/ senders_overlapped
                 \/ /\ pending # <<>>
                    /\ \E q \in Senders \ {d} : SenderInFlight(q))
    /\ UNCHANGED <<handed, unsub_staged, accepted, sent_emails, faults,
                   contacts, email_templates>>
    /\ UNCHANGED <<dispatchVars, followVars, schedVars, promoVars, trackVars>>

\* send_pending_emails, lines 59-64: an email whose contact has no address
\* is marked failed; an update that raises ends the job.
MissingContact(d) ==
    /\ sender[d].pc = "email"
    /\ LET e == sender[d].batch[sender[d].bi]
       IN  /\ ~contacts[sent_emails[e].contact_id].has_email
           /\ \/ /\ sent_emails' = [sent_emails EXCEPT
                                      ![e].status = "failed",
                                      ![e].status_reason = "error"]
                 /\ sender' = [sender EXCEPT ![d] =
                                 NextPending([sender[d] EXCEPT
                                                !.failed_sends = @ + 1])]
                 /\ UNCHANGED faults
              \/ /\ MayFail
                 /\ faults' = faults + 1
                 /\ sender' = [sender EXCEPT ![d] = RaisedSender(sender[d])]
                 /\ UNCHANGED sent_emails
    /\ UNCHANGED <<handed, unsub_staged, accepted, senders_overlapped,
                   contacts, email_templates>>
    /\ UNCHANGED <<dispatchVars, followVars, schedVars, promoVars, trackVars>>

\* send_pending_emails, lines 66-76: the email is marked "sending" (whatever
\* its status has become since the batch was selected), the content is
\* personalized and a tracking_pixel_id is generated; an update that raises
\* is handled by the except clause.
MarkSending(d) ==
    /\ sender[d].pc = "email"
    /\ LET e == sender[d].batch[sender[d].bi]
       IN  /\ contacts[sent_emails[e].contact_id].has_email
           /\ \/ /\ sent_emails' = [sent_emails EXCEPT
                                      ![e].status = "sending",
                                      ![e].status_reason = "none"]
                 /\ sender' = [sender EXCEPT ![d].pc = "send",
                                             ![d].pixel = SendUuid(d, e),
                                             ![d].marked = @ \cup {e}]
                 /\ UNCHANGED faults
              \/ /\ MayFail
                 /\ faults' = faults + 1
                 /\ sender' = [sender EXCEPT ![d].pc = "except"]
                 /\ UNCHANGED sent_emails
    /\ UNCHANGED <<handed, unsub_staged, accepted, senders_overlapped,
                   contacts, email_templates>>
    /\ UNCHANGED <<dispatchVars, followVars, schedVars, promoVars, trackVars>>

\* send_pending_emails, lines 78-83: the email is handed to the transport,
\* which returns success or an error (_send_single_email raises nothing).
SendSingleEmail(d) ==
    /\ sender[d].pc = "send"
    /\ LET e == sender[d].batch[sender[d].bi]
       IN  \E ok \in BOOLEAN :
             /\ handed' = [handed EXCEPT ![e] = @ + 1]
             /\ accepted' = [accepted EXCEPT ![e] = IF ok THEN @ + 1 ELSE @]
             /\ sender' = [sender EXCEPT ![d].pc = "record",
                                         ![d].success = ok]
    /\ UNCHANGED <<unsub_staged, senders_overlapped, sent_emails, faults,
                   contacts, email_templates>>
    /\ UNCHANGED <<dispatchVars, followVars, schedVars, promoVars, trackVars>>

\* send_pending_emails, lines 85-98: the outcome is recorded: "sent" with
\* the tracking_pixel_id and sent_at, or "failed" with the error; an update
\* that raises is handled by the except clause.
RecordOutcome(d) ==
    /\ sender[d].pc = "record"
    /\ LET e == sender[d].batch[sender[d].bi]
       IN  \/ /\ sender[d].success
              /\ sent_emails' = [sent_emails EXCEPT
                                   ![e].status = "sent",
                                   ![e].status_reason = "none",
                                   ![e].tracking_pixel_id = sender[d].pixel,
                                   ![e].sent_at = now]
              /\ sender' = [sender EXCEPT ![d] =
                              NextPending([sender[d] EXCEPT
                                             !.successful_sends = @ + 1])]
              /\ UNCHANGED faults
           \/ /\ ~sender[d].success
              /\ sent_emails' = [sent_emails EXCEPT
                                   ![e].status = "failed",
                                   ![e].status_reason = "error"]
              /\ sender' = [sender EXCEPT ![d] =
                              NextPending([sender[d] EXCEPT
                                             !.failed_sends = @ + 1])]
              /\ UNCHANGED faults
           \/ /\ MayFail
              /\ faults' = faults + 1
              /\ sender' = [sender EXCEPT ![d].pc = "except"]
              /\ UNCHANGED sent_emails
    /\ UNCHANGED <<handed, unsub_staged, accepted, senders_overlapped,
                   contacts, email_templates>>
    /\ UNCHANGED <<dispatchVars, followVars, schedVars, promoVars, trackVars>>

\* send_pending_emails, lines 100-103: the except clause marks the email
\* failed; this update can raise as the one before it did, and then ends
\* the job with the record as it was last committed.
HandleException(d) ==
    /\ sender[d].pc = "except"
    /\ LET e == sender[d].batch[sender[d].bi]
       IN  \/ /\ sent_emails' = [sent_emails EXCEPT
                                   ![e].status = "failed",
                                   ![e].status_reason = "error"]
              /\ sender' = [sender EXCEPT ![d] =
                              NextPending([sender[d] EXCEPT
                                             !.failed_sends = @ + 1])]
           \/ /\ sender' = [sender EXCEPT ![d] = RaisedSender(sender[d])]
              /\ UNCHANGED sent_emails
    /\ UNCHANGED <<handed, unsub_staged, accepted, senders_overlapped, faults,
                   contacts, email_templates>>
    /\ UNCHANGED <<dispatchVars, followVars, schedVars, promoVars, trackVars>>

DraftsIdle ==
    /\ sender = [d \in Senders |-> IdleSender]
    /\ handed = <<>>
    /\ unsub_staged = {}
    /\ accepted = <<>>
    /\ senders_overlapped = FALSE

\* ------------------------------------------------------------ the contacts
\* An external collaborator sets the unsubscribed flag of a contact (no code
\* of the engine writes it); the tables are then no longer those the last
\* tick saw.
Unsubscribe(c) ==
    /\ ~contacts[c].unsubscribed
    /\ contacts' = [contacts EXCEPT ![c].unsubscribed = TRUE]
    /\ hist' = [hist EXCEPT !.done = FALSE]
    /\ unsub_staged' = unsub_staged \cup
         {e \in Ids(sent_emails) :
            /\ sent_emails[e].contact_id = c
            /\ sent_emails[e].follows_up_on_email_id # NULL
            /\ sent_emails[e].status \in {"draft", "pending_send"}
            /\ \A d \in Senders :
                 e \notin {sender[d].batch[j] :
                             j \in 1..Len(sender[d].batch)}}
    /\ UNCHANGED <<rule_reply, follow_up_rules, now, tick, sent_emails, email_templates,
                   faults, sender, handed, accepted, senders_overlapped>>
    /\ UNCHANGED <<dispatchVars, schedVars, promoVars, trackVars>>

\* ----------------------------------------------------------- specification

\* ---------------------------------------------------------- the schedulers
\* uvicorn.run(..., workers=4): the server processes of a deployment.
NumWorkers == 4

Workers == 1..NumWorkers

\* The ids of the jobs start_scheduler registers.
Jobs == {"process_follow_ups_job", "draft_email_sender_job",
         "tracking_cleanup_job"}

\* The processes uvicorn starts: the workers option is ignored when reload
\* is on, which it is in the development environment.
ServerProcesses(env) ==
    IF env = "development" THEN {1} ELSE Workers

\* max_instances of a job: 1 for the two interval jobs, and the library's
\* default, also 1, for the cron job.
MaxInstances(job) == 1

\* The executions of a job running at this instant, over all processes.
RunningInstances(job) ==
    {w \in Workers : job_instances[w][job] > 0}

FiredTicks ==
    job_log["process_follow_ups_job"].fired
        + job_log["draft_email_sender_job"].fired
        + job_log["tracking_cleanup_job"].fired

\* lifespan startup of a server process: start_scheduler creates the
\* process's own scheduler (the module global is per process) and starts it.
StartScheduler(w) ==
    /\ w \in ServerProcesses(app_env)
    /\ w \notin scheduler_procs
    /\ \A q \in Workers : q < w => q \in scheduler_procs
    /\ scheduler_procs' = scheduler_procs \cup {w}
    /\ UNCHANGED <<app_env, job_instances, job_log, job_db, db_sessions>>
    /\ UNCHANGED <<dispatchVars, followVars, draftVars, promoVars, trackVars,
                   email_templates, contacts, sent_emails, faults>>

\* The ways an execution of a job that holds a session ends: its work
\* completes, an exception is raised inside the job (and caught by its
\* except clause), or, in the draft sender, the SMTP configuration is
\* incomplete and the job returns early.
ExitPaths(job) ==
    IF job = "draft_email_sender_job"
    THEN {"completed", "raised", "incomplete_config"}
    ELSE {"completed", "raised"}

\* The session closed only at the end of the job's work.
ClosesSessionOnCompletion(job, path) == path = "completed"

\* finally: if db: db.close() -- the finally clause runs on every way out of
\* the try block, the return at the configuration check included.
ClosesSession(job, path) == path \in ExitPaths(job)

\* The trigger of a job fires in the scheduler of process w: the job is
\* submitted unless that scheduler already runs max_instances executions of
\* it, in which case this run is skipped (it is not kept for later). The
\* execution begins with db = next(get_db()): get_db makes a new session,
\* or raises and leaves db None.
FireJob(w, job) ==
    /\ w \in scheduler_procs
    /\ FiredTicks < MaxFires
    /\ IF job_instances[w][job] < MaxInstances(job)
       THEN /\ job_instances' =
                  [job_instances EXCEPT ![w][job] = @ + 1]
            /\ job_log' = [job_log EXCEPT ![job].fired = @ + 1,
                                          ![job].executed = @ + 1]
            /\ \/ /\ job_db' = [job_db EXCEPT
                                   ![w][job] = db_sessions.made + 1]
                  /\ db_sessions' =
                       [db_sessions EXCEPT
                          !.made = @ + 1,
                          !.open = @ \cup {db_sessions.made + 1}]
               \/ /\ job_db' = [job_db EXCEPT ![w][job] = NULL]
                  /\ UNCHANGED db_sessions
       ELSE /\ job_log' = [job_log EXCEPT ![job].fired = @ + 1,
                                          ![job].skipped = @ + 1]
            /\ UNCHANGED <<job_instances, job_db, db_sessions>>
    /\ UNCHANGED <<app_env, scheduler_procs>>
    /\ UNCHANGED <<dispatchVars, followVars, draftVars, promoVars, trackVars,
                   email_templates, contacts, sent_emails, faults>>

\* An execution of a job in process w ends: without a session (get_db
\* raised) through its except clause, with one in any of the ways the job
\* has, and the finally clause closes the session it holds.
FinishJob(w, job) ==
    /\ job_instances[w][job] > 0
    /\ job_instances' = [job_instances EXCEPT ![w][job] = @ - 1]
    /\ job_db' = [job_db EXCEPT ![w][job] = NULL]
    /\ IF job_db[w][job] = NULL
       THEN UNCHANGED db_sessions
       ELSE \E path \in ExitPaths(job) :
              db_sessions' =
                [db_sessions EXCEPT
                   !.open = IF ClosesSession(job, path)
                            THEN @ \ {job_db[w][job]} ELSE @,
                   !.exits = @ \cup {path}]
    /\ UNCHANGED <<app_env, scheduler_procs, job_log>>
    /\ UNCHANGED <<dispatchVars, followVars, draftVars, promoVars, trackVars,
                   email_templates, contacts, sent_emails, faults>>

SchedulersIdle ==
    /\ scheduler_procs = {}
    /\ job_instances = [w \in Workers |-> [j \in Jobs |-> 0]]
    /\ job_log = [j \in Jobs |-> [fired |-> 0, executed |-> 0, skipped |-> 0]]
    /\ job_db = [w \in Workers |-> [j \in Jobs |-> NULL]]
    /\ db_sessions = [made |-> 0, open |-> {}, exits |-> {}]

\* ------------------------------------------------- the template requests
\* The requests that may create a template of the campaign at one time; a
\* request takes the first free one.
Promoters == {1, 2}

\* The three operations that create a template: finalize_style_and_create_
\* template (ai_chat), the generate-template route (llm) and
\* generate_campaign_emails (personalization service).
PromoOps == {"finalize", "generate", "personalize"}

IdlePromo ==
    [ pc          |-> "idle",
      op          |-> "none",
      staged      |-> {},     \* rows the open transaction has demoted
      before      |-> {},     \* the primaries when the request began
      after       |-> {},     \* the primaries when the request ended
      new_id      |-> NULL,   \* the row the request created
      save_failed |-> FALSE,  \* the save of the new template raised
      alone       |-> TRUE ]  \* no other request was in flight meanwhile

PromoInFlight(p) == promo[p].pc \notin {"idle", "returned", "raised"}

\* Every listed row with is_primary set to False.
Demoted(templates, rows) ==
    [t \in Ids(templates) |->
        IF t \in rows THEN [templates[t] EXCEPT !.is_primary = FALSE]
        ELSE templates[t]]

\* A request arrives; the model generates the subject and the body (an
\* await) before the tables are touched.
BeginPromotion(p, op) ==
    /\ ~PromoInFlight(p)
    /\ \A q \in Promoters : q < p => PromoInFlight(q)
    /\ promotions < MaxPromotions
    /\ promotions' = promotions + 1
    /\ promo' =
         [q \in Promoters |->
            IF q = p
            THEN [IdlePromo EXCEPT
                    !.pc = CASE op = "finalize" -> "demote"
                             [] op = "generate" -> "set_not_primary"
                             [] OTHER -> "create",
                    !.op = op,
                    !.before = PrimaryTemplates(email_templates),
                    !.alone = \A o \in Promoters \ {p} : ~PromoInFlight(o)]
            ELSE IF PromoInFlight(q) THEN [promo[q] EXCEPT !.alone = FALSE]
            ELSE promo[q]]
    /\ UNCHANGED <<email_templates, contacts, sent_emails, faults>>
    /\ UNCHANGED <<dispatchVars, followVars, draftVars, schedVars, trackVars,
                   rendering>>

\* finalize, step 1: every primary template of the campaign is set to not
\* primary, and that is committed on its own; a failure rolls back and
\* raises.
DemoteExisting(p) ==
    /\ promo[p].pc = "demote"
    /\ \/ /\ email_templates' =
                Demoted(email_templates, PrimaryTemplates(email_templates))
          /\ promo' = [promo EXCEPT ![p].pc = "create_primary"]
          /\ UNCHANGED faults
       \/ /\ MayFail
          /\ PrimaryTemplates(email_templates) # {}
          /\ faults' = faults + 1
          /\ promo' = [promo EXCEPT
                         ![p].pc = "raised",
                         ![p].after = PrimaryTemplates(email_templates)]
          /\ UNCHANGED email_templates
    /\ UNCHANGED <<contacts, sent_emails, promotions>>
    /\ UNCHANGED <<dispatchVars, followVars, draftVars, schedVars, trackVars,
                   rendering>>

\* finalize, step 2: the new template is added with is_primary True and
\* committed; a failure rolls back the add and raises.
CreatePrimary(p) ==
    /\ promo[p].pc = "create_primary"
    /\ \/ /\ email_templates' =
                Append(email_templates, [is_primary |-> TRUE])
          /\ promo' = [promo EXCEPT
                         ![p].pc = "returned",
                         ![p].new_id = Len(email_templates) + 1,
                         ![p].after = PrimaryTemplates(email_templates')]
          /\ UNCHANGED faults
       \/ /\ MayFail
          /\ faults' = faults + 1
          /\ promo' = [promo EXCEPT
                         ![p].pc = "raised",
                         ![p].save_failed = TRUE,
                         ![p].after = PrimaryTemplates(email_templates)]
          /\ UNCHANGED email_templates
    /\ UNCHANGED <<contacts, sent_emails, promotions>>
    /\ UNCHANGED <<dispatchVars, followVars, draftVars, schedVars, trackVars,
                   rendering>>

\* generate, step 1: db_set_other_templates_not_primary updates every row
\* of the campaign inside the request's transaction (nothing is committed).
SetOtherTemplatesNotPrimary(p) ==
    /\ promo[p].pc = "set_not_primary"
    /\ promo' = [promo EXCEPT ![p].pc = "commit",
                              ![p].staged = Ids(email_templates)]
    /\ UNCHANGED <<email_templates, contacts, sent_emails, faults,
                   promotions>>
    /\ UNCHANGED <<dispatchVars, followVars, draftVars, schedVars, trackVars,
                   rendering>>

\* generate, step 2: the new primary template is added and the transaction
\* (the update and the insert) commits; a failure rolls both back.
CommitGenerated(p) ==
    /\ promo[p].pc = "commit"
    /\ \/ /\ email_templates' =
                Append(Demoted(email_templates, promo[p].staged),
                       [is_primary |-> TRUE])
          /\ promo' = [promo EXCEPT
                         ![p].pc = "returned",
                         ![p].staged = {},
                         ![p].new_id = Len(email_templates) + 1,
                         ![p].after = PrimaryTemplates(email_templates')]
          /\ UNCHANGED faults
       \/ /\ MayFail
          /\ faults' = faults + 1
          /\ promo' = [promo EXCEPT
                         ![p].pc = "raised",
                         ![p].staged = {},
                         ![p].save_failed = TRUE,
                         ![p].after = PrimaryTemplates(email_templates)]
          /\ UNCHANGED email_templates
    /\ UNCHANGED <<contacts, sent_emails, promotions>>
    /\ UNCHANGED <<dispatchVars, followVars, draftVars, schedVars, trackVars,
                   rendering>>

\* personalize: the generated template is added with is_primary False (the
\* default of db_create_email_template) and committed.
CreateTemplate(p) ==
    /\ promo[p].pc = "create"
    /\ \/ /\ email_templates' =
                Append(email_templates, [is_primary |-> FALSE])
          /\ promo' = [promo EXCEPT
                         ![p].pc = "returned",
                         ![p].new_id = Len(email_templates) + 1,
                         ![p].after = PrimaryTemplates(email_templates')]
          /\ UNCHANGED faults
       \/ /\ MayFail
          /\ faults' = faults + 1
          /\ promo' = [promo EXCEPT
                         ![p].pc = "raised",
                         ![p].save_failed = TRUE,
                         ![p].after = PrimaryTemplates(email_templates)]
          /\ UNCHANGED email_templates
    /\ UNCHANGED <<contacts, sent_emails, promotions>>
    /\ UNCHANGED <<dispatchVars, followVars, draftVars, schedVars, trackVars,
                   rendering>>

\* ------------------------------------------------------- personalization
\* A text is a sequence of atoms: words, names, and the braces "{" and "}".

\* The token {{name}} and the single-brace key {name}.
Token(name) == <<"{", "{", name, "}", "}">>
Key(name) == <<"{", name, "}">>

\* A field of a contact that is None.
None == <<"NoneType">>

\* Python's truth value of a field: None and the empty string are false.
Falsy(value) == value = None \/ value = <<>>

\* value or default
Or(value, default) == IF Falsy(value) THEN default ELSE value

\* str(value)
Str(value) == IF value = None THEN <<"None">> ELSE value

\* str.replace(key, value): every occurrence of key, from the left and
\* without overlap, is replaced by value.
RECURSIVE Replace(_, _, _)
Replace(content, key, value) ==
    IF Len(content) < Len(key) THEN content
    ELSE IF SubSeq(content, 1, Len(key)) = key
    THEN value \o Replace(SubSeq(content, Len(key) + 1, Len(content)),
                          key, value)
    ELSE <<Head(content)>> \o Replace(Tail(content), key, value)

\* The loop over replacements.items(): each key is replaced in turn.
RECURSIVE ReplaceAll(_, _)
ReplaceAll(content, replacements) ==
    IF replacements = <<>> THEN content
    ELSE ReplaceAll(Replace(content, Head(replacements)[1],
                            Head(replacements)[2]),
                    Tail(replacements))

\* str.replace raises TypeError for a value that is not a string.
ReplaceRaises(replacements) ==
    \E i \in 1..Len(replacements) : replacements[i][2] = None

\* A personalization that also blanks every token it does not know.
PersonalizeContentBlankingUnknown(content, contact) ==
    Replace(ReplaceAll(content,
              << <<Token("first_name"), Or(contact.first_name, <<"there">>)>>,
                 <<Token("last_name"), Or(contact.last_name, <<>>)>>,
                 <<Token("full_name"), Or(contact.full_name, <<>>)>>,
                 <<Token("company_name"),
                   Or(contact.company_name, <<"your company">>)>>,
                 <<Token("job_title"), Or(contact.job_title, <<>>)>>,
                 <<Token("industry"), Or(contact.industry, <<>>)>>,
                 <<Token("city"), Or(contact.city, <<>>)>>,
                 <<Token("country"), Or(contact.country, <<>>)>> >>),
            Token("nickname"), <<>>)

\* CampaignSendingService._personalize_content: the replacements.
Replacements(contact) ==
    << <<Token("first_name"), Or(contact.first_name, <<"there">>)>>,
       <<Token("last_name"), Or(contact.last_name, <<>>)>>,
       <<Token("full_name"), Or(contact.full_name, <<>>)>>,
       <<Token("company_name"), Or(contact.company_name, <<"your company">>)>>,
       <<Token("job_title"), Or(contact.job_title, <<>>)>>,
       <<Token("industry"), Or(contact.industry, <<>>)>>,
       <<Token("city"), Or(contact.city, <<>>)>>,
       <<Token("country"), Or(contact.country, <<>>)>> >>

\* CampaignSendingService._personalize_content
PersonalizeContent(content, contact) ==
    ReplaceAll(content, Replacements(contact))

\* process_due_follow_ups, lines 107-113: the replacements of the follow-up
\* engine.
FollowUpReplacements(contact) ==
    << <<Token("first_name"), Or(contact.first_name, <<"there">>)>>,
       <<Token("company_name"),
         Or(contact.company_name, <<"your company">>)>> >>

\* process_due_follow_ups, lines 107-113: a template text that is None is
\* taken as empty.
FollowUpPersonalize(content, contact) ==
    ReplaceAll(Or(content, <<>>), FollowUpReplacements(contact))

\* _personalize_content of the draft sender: the replacements, with
\* single-brace keys.
DraftReplacements(contact) ==
    << <<Key("first_name"), Str(contact.first_name)>>,
       <<Key("last_name"), Str(contact.last_name)>>,
       <<Key("full_name"), Str(contact.full_name)>>,
       <<Key("company_name"), Str(contact.company_name)>>,
       <<Key("job_title"), Str(Or(contact.job_title, <<>>))>>,
       <<Key("company_website"), Str(Or(contact.company_website, <<>>))>>,
       <<Key("industry"), Str(Or(contact.industry, <<>>))>>,
       <<Key("city"), Str(Or(contact.city, <<>>))>>,
       <<Key("country"), Str(Or(contact.country, <<>>))>>,
       <<Key("linkedin_url"), Str(Or(contact.linkedin_url, <<>>))>> >>

\* _personalize_content of the draft sender
DraftPersonalizeContent(content, contact) ==
    ReplaceAll(content, DraftReplacements(contact))

\* The parts a template is written with: a word, tokens of the enumerated
\* set, and a token outside of it.
Parts ==
    { <<"Hi">>, Token("first_name"), Token("last_name"),
      Token("company_name"), Token("city"), Token("nickname") }

\* The templates of at most n parts.
RECURSIVE Templates(_)
Templates(n) ==
    IF n = 0 THEN {<<>>}
    ELSE Templates(n - 1) \cup
         {t \o part : t \in Templates(n - 1), part \in Parts}

\* The contacts rendered for: the columns that are not nullable
\* (first_name, last_name, full_name, company_name) have a text or are
\* empty, the nullable ones have a text or are None.
RenderContacts ==
    { [ first_name      |-> first_name,
        last_name       |-> last_name,
        full_name       |-> first_name \o last_name,
        company_name    |-> company_name,
        job_title       |-> None,
        company_website |-> None,
        industry        |-> None,
        city            |-> city,
        country         |-> None,
        linkedin_url    |-> None ] :
        first_name \in {<<"Ada">>, <<>>}, last_name \in {<<"Byron">>, <<>>},
        company_name \in {<<"Acme">>, <<>>}, city \in {<<"Paris">>, None} }

NoRendering ==
    [ path |-> "none", template |-> <<>>, contact |-> NULL,
      output |-> <<>>, raised |-> FALSE ]

\* _process_contact, lines 144-145: the initial send renders the template.
RenderInitial(template, contact) ==
    /\ rendering.path = "none"
    /\ rendering' =
         [ path     |-> "initial",
           template |-> template,
           contact  |-> contact,
           output   |-> PersonalizeContent(template, contact),
           raised   |-> ReplaceRaises(Replacements(contact)) ]
    /\ UNCHANGED <<promo, promotions, email_templates, contacts, sent_emails,
                   faults>>
    /\ UNCHANGED <<dispatchVars, followVars, draftVars, schedVars, trackVars>>

\* process_due_follow_ups, lines 107-113: the follow-up engine renders the
\* template into the draft.
RenderFollowUp(template, contact) ==
    /\ rendering.path = "none"
    /\ rendering' =
         [ path     |-> "follow_up",
           template |-> template,
           contact  |-> contact,
           output   |-> FollowUpPersonalize(template, contact),
           raised   |-> ReplaceRaises(FollowUpReplacements(contact)) ]
    /\ UNCHANGED <<promo, promotions, email_templates, contacts, sent_emails,
                   faults>>
    /\ UNCHANGED <<dispatchVars, followVars, draftVars, schedVars, trackVars>>

\* send_pending_emails, lines 71-72: the draft sender renders the text of
\* the draft the engine staged.
RenderDraft ==
    /\ rendering.path = "follow_up"
    /\ ~rendering.raised
    /\ rendering' =
         [rendering EXCEPT
            !.path = "draft_dispatch",
            !.output = DraftPersonalizeContent(rendering.output,
                                               rendering.contact),
            !.raised = ReplaceRaises(DraftReplacements(rendering.contact))]
    /\ UNCHANGED <<promo, promotions, email_templates, contacts, sent_emails,
                   faults>>
    /\ UNCHANGED <<dispatchVars, followVars, draftVars, schedVars, trackVars>>

PromotersIdle ==
    /\ promo = [p \in Promoters |-> IdlePromo]
    /\ promotions = 0
    /\ rendering = NoRendering

\* ------------------------------------------------------- the open tracking
\* The statuses an open event leaves alone in db_record_email_open_event.
TerminalStatuses ==
    {"clicked", "hard_bounced", "spam_complaint", "unsubscribed", "replied"}

\* The statuses an open event leaves alone in db_record_email_open.
DefinitiveStatuses ==
    {"clicked", "hard_bounced", "spam_complaint", "unsubscribed"}

\* The addresses a pixel request can come from (NULL: none was passed).
IpAddresses == {1, 2}

\* A token no ledger record carries.
UnknownToken == Uuid(0, NULL)

\* The select falling back to the oldest record when none has the token.
RecordsWithTokenOrOldest(ledger, token) ==
    IF \E e \in Ids(ledger) : ledger[e].tracking_pixel_id = token
    THEN {e \in Ids(ledger) : ledger[e].tracking_pixel_id = token}
    ELSE {e \in Ids(ledger) : e = 1}

\* select(SentEmail).where(SentEmail.tracking_pixel_id == token)
RecordsWithToken(ledger, token) ==
    {e \in Ids(ledger) : ledger[e].tracking_pixel_id = token}

\* db_record_email_open_event with opened_at rewritten by every event.
RecordEmailOpenEventRestamped(email_record, opened_ip, time) ==
    [email_record EXCEPT
        !.open_count = @ + 1,
        !.last_opened_at = time,
        !.opened_at = time,
        !.first_opened_ip = IF opened_ip # NULL /\ @ = NULL THEN opened_ip
                            ELSE @,
        !.status = IF @ \in TerminalStatuses THEN @ ELSE "opened"]

\* db_record_email_open_event: the values the update statement applies to
\* the record found. The two reads of the clock are one instant of the
\* model's clock.
RecordEmailOpenEvent(email_record, opened_ip, time) ==
    [email_record EXCEPT
        !.open_count = @ + 1,
        !.last_opened_at = time,
        !.opened_at = IF @ = NULL THEN time ELSE @,
        !.first_opened_ip = IF opened_ip # NULL /\ @ = NULL THEN opened_ip
                            ELSE @,
        !.status = IF @ \in TerminalStatuses THEN @ ELSE "opened"]

\* db_record_email_open (followups): the fields it sets on the record found.
RecordEmailOpen(email_record, opened_ip, time) ==
    [email_record EXCEPT
        !.open_count = @ + 1,
        !.last_opened_at = time,
        !.opened_at = IF @ = NULL THEN time ELSE @,
        !.first_opened_ip = IF @ = NULL THEN opened_ip ELSE @,
        !.status = IF @ \in DefinitiveStatuses THEN @ ELSE "opened"]

NoOpens == [k |-> 0, first |-> NULL, last |-> NULL, prior_status |-> "none"]

\* The history of record e after an open event recorded at this instant.
Opened(e) ==
    [opens EXCEPT
        ![e].k = @ + 1,
        ![e].first = IF opens[e].k = 0 THEN now ELSE @,
        ![e].last = now,
        ![e].prior_status = sent_emails[e].status]

\* No pixel request has been served.
NoReply ==
    [ token_known  |-> FALSE,   \* a record had the token of the request
      was_recorded |-> FALSE,   \* what recording the open returned
      raised       |-> FALSE,   \* recording the open raised in the handler
      response     |-> [status |-> "none", media_type |-> "none",
                        content |-> "none", cache_control |-> "none"] ]

\* The response of a handler that tells a miss from a hit.
PixelResponseRevealsMiss(was_recorded, raised) ==
    IF was_recorded
    THEN [ status        |-> "200",
           media_type    |-> "image/png",
           content       |-> "MINIMAL_PNG_BYTES",
           cache_control |-> "no-cache, no-store" ]
    ELSE [ status        |-> "404",
           media_type    |-> "application/json",
           content       |-> "not found",
           cache_control |-> "none" ]

\* handle_open_tracking_pixel_request_api, lines 61-72: the response built
\* after the try block, whatever record_email_opened returned or raised.
PixelResponse(was_recorded, raised) ==
    [ status        |-> "200",
      media_type    |-> "image/png",
      content       |-> "MINIMAL_PNG_BYTES",
      cache_control |-> "no-cache, no-store" ]

\* The outcome of a pixel request.
Reply(known, was_recorded, raised) ==
    [ token_known  |-> known,
      was_recorded |-> was_recorded,
      raised       |-> raised,
      response     |-> PixelResponse(was_recorded, raised) ]

\* EmailService.record_email_opened: the pixel request's open is recorded
\* and committed; an unknown token returns False; a failure rolls back and
\* returns False.
RecordEmailOpened(tracking_pixel_id, ip_address) ==
    /\ open_requests < MaxOpens
    /\ open_requests' = open_requests + 1
    /\ LET found == RecordsWithToken(sent_emails, tracking_pixel_id)
           known == \E e \in Ids(sent_emails) :
                      sent_emails[e].tracking_pixel_id = tracking_pixel_id
       IN
       \/ /\ found = {}
          /\ pixel_reply' = Reply(known, FALSE, FALSE)
          /\ UNCHANGED <<sent_emails, opens, faults>>
       \/ \E e \in found :
            /\ found = {e}
            /\ sent_emails' =
                 [sent_emails EXCEPT
                    ![e] = RecordEmailOpenEvent(@, ip_address, now)]
            /\ opens' = Opened(e)
            /\ pixel_reply' = Reply(known, TRUE, FALSE)
            /\ UNCHANGED faults
       \/ /\ found # {}
          /\ MayFail
          /\ faults' = faults + 1
          /\ \E raised \in BOOLEAN :
               pixel_reply' = Reply(known, FALSE, raised)
          /\ UNCHANGED <<sent_emails, opens>>
    /\ UNCHANGED <<email_templates, contacts, open_reads>>
    /\ UNCHANGED <<dispatchVars, followVars, draftVars, schedVars, promoVars>>

\* db_record_email_open (followups): the first record with the token is
\* updated and committed; an unknown token returns False.
DbRecordEmailOpen(tracking_pixel_id, opened_ip) ==
    /\ open_requests < MaxOpens
    /\ open_requests' = open_requests + 1
    /\ LET found == RecordsWithToken(sent_emails, tracking_pixel_id)
           known == \E e \in Ids(sent_emails) :
                      sent_emails[e].tracking_pixel_id = tracking_pixel_id
       IN
       \/ /\ found = {}
          /\ pixel_reply' = Reply(known, FALSE, FALSE)
          /\ UNCHANGED <<sent_emails, opens>>
       \/ \E e \in found :
            /\ \A o \in found : e <= o
            /\ sent_emails' =
                 [sent_emails EXCEPT
                    ![e] = RecordEmailOpen(@, opened_ip, now)]
            /\ opens' = Opened(e)
            /\ pixel_reply' = Reply(known, TRUE, FALSE)
    /\ UNCHANGED <<email_templates, contacts, faults, open_reads>>
    /\ UNCHANGED <<dispatchVars, followVars, draftVars, schedVars, promoVars>>

\* The pixel requests that can be in flight together (each has its own
\* session).
OpenRequesters == {1, 2}

NoRead == [pc |-> "idle", id |-> NULL, email_record |-> NULL,
           opened_ip |-> NULL]

\* db_record_email_open_event, lines 28-38: the request selects the record
\* with the token and awaits the result; without a record it returns False.
SelectEmailRecord(q, tracking_pixel_id, opened_ip) ==
    /\ open_reads[q].pc = "idle"
    /\ open_requests < MaxOpens
    /\ open_requests' = open_requests + 1
    /\ LET found == RecordsWithToken(sent_emails, tracking_pixel_id)
           known == \E e \in Ids(sent_emails) :
                      sent_emails[e].tracking_pixel_id = tracking_pixel_id
       IN
       \/ /\ found = {}
          /\ pixel_reply' = Reply(known, FALSE, FALSE)
          /\ UNCHANGED open_reads
       \/ \E e \in found :
            /\ found = {e}
            /\ open_reads' = [open_reads EXCEPT ![q] =
                                [pc |-> "read", id |-> e,
                                 email_record |-> sent_emails[e],
                                 opened_ip |-> opened_ip]]
            /\ UNCHANGED pixel_reply
    /\ UNCHANGED <<email_templates, contacts, sent_emails, opens, faults>>
    /\ UNCHANGED <<dispatchVars, followVars, draftVars, schedVars, promoVars>>

\* db_record_email_open_event, lines 40-65, and record_email_opened, lines
\* 203-205: the values computed from the record the request read are
\* written by the update statement to the row as it now is, and committed.
ApplyOpenUpdate(q) ==
    /\ open_reads[q].pc = "read"
    /\ LET e == open_reads[q].id
           updates_to_apply ==
               RecordEmailOpenEvent(open_reads[q].email_record,
                                    open_reads[q].opened_ip, now)
       IN  /\ sent_emails' =
                [sent_emails EXCEPT
                   ![e].open_count = updates_to_apply.open_count,
                   ![e].last_opened_at = updates_to_apply.last_opened_at,
                   ![e].opened_at =
                       IF open_reads[q].email_record.opened_at = NULL
                       THEN updates_to_apply.opened_at ELSE @,
                   ![e].first_opened_ip =
                       IF /\ open_reads[q].opened_ip # NULL
                          /\ open_reads[q].email_record.first_opened_ip = NULL
                       THEN updates_to_apply.first_opened_ip ELSE @,
                   ![e].status =
                       IF open_reads[q].email_record.status
                              \notin TerminalStatuses
                       THEN updates_to_apply.status ELSE @]
           /\ opens' = Opened(e)
    /\ pixel_reply' = Reply(TRUE, TRUE, FALSE)
    /\ open_reads' = [open_reads EXCEPT ![q] = NoRead]
    /\ UNCHANGED <<email_templates, contacts, open_requests, faults>>
    /\ UNCHANGED <<dispatchVars, followVars, draftVars, schedVars, promoVars>>

TrackingIdle ==
    /\ opens = <<>>
    /\ open_requests = 0
    /\ pixel_reply = NoReply
    /\ open_reads = [q \in OpenRequesters |-> NoRead]

\* The template tables a dispatch run can find: none, one primary, two
\* primaries.
TemplateTables ==
    { <<>>, <<[is_primary |-> TRUE]>>,
      <<[is_primary |-> TRUE], [is_primary |-> TRUE]>> }

\* The contacts tables a dispatch run can find: every contact with an
\* address and subscribed, contact 2 without an address, contact 1
\* unsubscribed.
ContactTables ==
    { [c \in Contacts |->
         [has_email |-> ~(no_email /\ c = 2),
          unsubscribed |-> unsub /\ c = 1]] :
        <<no_email, unsub>> \in {<<FALSE, FALSE>>, <<TRUE, FALSE>>,
                                 <<FALSE, TRUE>>} }

NoHist == [started |-> 0, done |-> FALSE, clean |-> FALSE,
           same_time |-> FALSE]

Init ==
    /\ campaign_status \in {"none", "draft", "active", "pending"}
    /\ email_templates \in TemplateTables
    /\ contacts \in ContactTables
    /\ sent_emails = <<>>
    /\ run = [r \in Runs |-> IdleRun]
    /\ started = 0
    /\ faults = 0
    /\ activations = 0
    /\ delivered = [c \in Contacts |-> 0]
    /\ overlapped = FALSE
    /\ rule_reply = NoRuleReply
    /\ follow_up_rules = <<>>
    /\ now = 1
    /\ tick = [w \in Tickers |-> IdleTick]
    /\ hist = NoHist
    /\ app_env = "production"
    /\ SchedulersIdle
    /\ PromotersIdle
    /\ TrackingIdle
    /\ DraftsIdle

Next ==
    \/ ActivateCampaign
    \/ \E r \in Runs :
        \/ LoadCampaign(r)
        \/ BeginRun(r)
        \/ GetTemplate(r)
        \/ GetContacts(r)
        \/ ProcessContact(r)
        \/ CommitBatch(r)
        \/ MarkBatchError(r)
        \/ FinalizeRun(r)

Spec == Init /\ [][Next]_vars

\* The follow-up engine: a ledger of two initial records sent with template
\* 1 on day 1 and on day 2, two active rules with delays of two and three
\* days, and the workers' schedulers firing the follow-up job from day 3 on.
InitialRecord(c, status, sent_at) ==
    NewSentEmail(c, 1, status, IF status = "failed" THEN "error" ELSE "none",
                 IF status = "failed" THEN NULL ELSE sent_at, Uuid(0, c))

Rule(condition, delay_days) ==
    [ original_email_template_id  |-> 1,
      follow_up_email_template_id |-> 2,
      delay_days                  |-> delay_days,
      condition                   |-> condition,
      is_active                   |-> TRUE ]

InitFollowUp ==
    /\ campaign_status = "completed"
    /\ email_templates = <<[is_primary |-> TRUE], [is_primary |-> FALSE]>>
    /\ contacts = [c \in Contacts |->
                     [has_email |-> TRUE, unsubscribed |-> FALSE]]
    /\ sent_emails \in
         { <<InitialRecord(1, s, 1), InitialRecord(2, "sent", 2)>> :
             s \in {"sent", "opened", "clicked", "failed"} }
    /\ run = [r \in Runs |-> IdleRun]
    /\ started = 0
    /\ faults = 0
    /\ activations = 0
    /\ delivered = [c \in Contacts |-> 0]
    /\ overlapped = FALSE
    /\ rule_reply = NoRuleReply
    /\ follow_up_rules \in
         { <<Rule(cond, 2), Rule("sent_anyway", 3)>> :
             cond \in {"not_opened_within_delay", "not_clicked_within_delay"} }
    /\ now = 3
    /\ tick = [w \in Tickers |-> IdleTick]
    /\ hist = NoHist
    /\ app_env = "production"
    /\ SchedulersIdle
    /\ PromotersIdle
    /\ TrackingIdle
    /\ DraftsIdle

NextFollowUp ==
    \/ Advance
    \/ \E w \in Tickers :
        \/ StartTick(w)
        \/ LoadInitialEmails(w)
        \/ CheckFollowUp(w)
        \/ CreateFollowUp(w)
        \/ FinishTick(w)

SpecFollowUp == InitFollowUp /\ [][NextFollowUp]_vars

\* The tables and processes the three service models below leave alone.
DispatchIdle ==
    /\ campaign_status = "active"
    /\ contacts = [c \in Contacts |->
                     [has_email |-> TRUE, unsubscribed |-> FALSE]]
    /\ run = [r \in Runs |-> IdleRun]
    /\ started = 0
    /\ faults = 0
    /\ activations = 0
    /\ delivered = [c \in Contacts |-> 0]
    /\ overlapped = FALSE

FollowUpIdle ==
    /\ rule_reply = NoRuleReply
    /\ follow_up_rules = <<>>
    /\ now = 1
    /\ tick = [w \in Tickers |-> IdleTick]
    /\ hist = NoHist

\* The schedulers of a deployment: the server processes start, each starts
\* its scheduler, and the triggers of the three jobs fire in each of them.
InitScheduler ==
    /\ DispatchIdle
    /\ FollowUpIdle
    /\ email_templates = <<>>
    /\ sent_emails = <<>>
    /\ app_env \in {"development", "production"}
    /\ SchedulersIdle
    /\ PromotersIdle
    /\ TrackingIdle
    /\ DraftsIdle

NextScheduler ==
    \E w \in Workers :
        \/ StartScheduler(w)
        \/ \E job \in Jobs :
            \/ FireJob(w, job)
            \/ FinishJob(w, job)

SpecScheduler == InitScheduler /\ [][NextScheduler]_vars

\* The templates of a campaign: requests that create a template arrive at
\* the server processes, on a table that has at most one primary.
InitTemplates ==
    /\ DispatchIdle
    /\ FollowUpIdle
    /\ email_templates \in
         { <<>>, <<[is_primary |-> TRUE]>>, <<[is_primary |-> FALSE]>>,
           <<[is_primary |-> TRUE], [is_primary |-> FALSE]>> }
    /\ sent_emails = <<>>
    /\ app_env = "production"
    /\ SchedulersIdle
    /\ PromotersIdle
    /\ TrackingIdle
    /\ DraftsIdle

NextTemplates ==
    \E p \in Promoters :
        \/ \E op \in PromoOps : BeginPromotion(p, op)
        \/ DemoteExisting(p)
        \/ CreatePrimary(p)
        \/ SetOtherTemplatesNotPrimary(p)
        \/ CommitGenerated(p)
        \/ CreateTemplate(p)

SpecTemplates == InitTemplates /\ [][NextTemplates]_vars

\* The open tracking: a ledger of two records that were sent on day 1, the
\* first in any status a sent record can have, and pixel requests arriving
\* while the clock advances.
InitTracking ==
    /\ DispatchIdle
    /\ FollowUpIdle
    /\ email_templates = <<[is_primary |-> TRUE]>>
    /\ sent_emails \in
         { <<InitialRecord(1, s, 1), InitialRecord(2, "sent", 1)>> :
             s \in {"sent", "delivered", "clicked", "replied",
                    "hard_bounced", "spam_complaint", "unsubscribed"} }
    /\ app_env = "production"
    /\ SchedulersIdle
    /\ PromotersIdle
    /\ opens = <<NoOpens, NoOpens>>
    /\ open_requests = 0
    /\ pixel_reply = NoReply
    /\ open_reads = [q \in OpenRequesters |-> NoRead]
    /\ DraftsIdle

NextTracking ==
    \/ Advance
    \/ \E c \in Contacts \cup {NULL} : \E ip \in IpAddresses \cup {NULL} :
        \/ RecordEmailOpened(Uuid(0, c), ip)
        \/ DbRecordEmailOpen(Uuid(0, c), ip)

SpecTracking == InitTracking /\ [][NextTracking]_vars

\* The statuses of a record that has not been handed to the transport
\* successfully: it has no sent_at.
UnsentStatuses == {"draft", "pending_send", "sending", "failed"}

\* The statuses of a record that was sent.
SentStatuses ==
    {"sent", "delivered", "opened", "clicked", "replied", "hard_bounced",
     "soft_bounced", "spam_complaint", "unsubscribed"}

\* An initial record of contact c in the given status, sent on the given day
\* if it was sent at all.
LedgerRecord(c, status, day) ==
    NewSentEmail(c, 1, status, IF status = "failed" THEN "error" ELSE "none",
                 IF status \in UnsentStatuses THEN NULL ELSE day, Uuid(0, c))

\* The candidates of a rule: a ledger with one initial record of contact 1,
\* in any status and sent on day 1 or 2, one active rule with any of the
\* three conditions and a delay of two or three days, the follow-up job
\* firing from day 3 on, and contacts unsubscribing at any moment.
InitCandidates ==
    /\ DispatchIdle
    /\ email_templates = <<[is_primary |-> TRUE], [is_primary |-> FALSE]>>
    /\ sent_emails \in
         { <<LedgerRecord(1, s, day)>> :
             s \in UnsentStatuses \cup SentStatuses, day \in {1, 2} }
    /\ rule_reply = NoRuleReply
    /\ follow_up_rules \in
         { <<Rule(cond, delay)>> :
             cond \in {"not_opened_within_delay", "not_clicked_within_delay",
                       "sent_anyway"},
             delay \in {2, 3} }
    /\ now = 3
    /\ tick = [w \in Tickers |-> IdleTick]
    /\ hist = NoHist
    /\ app_env = "production"
    /\ SchedulersIdle
    /\ PromotersIdle
    /\ TrackingIdle
    /\ DraftsIdle

NextCandidates ==
    \/ Advance
    \/ \E c \in Contacts : Unsubscribe(c)
    \/ \E w \in Tickers :
        \/ StartTick(w)
        \/ LoadInitialEmails(w)
        \/ CheckFollowUp(w)
        \/ CreateFollowUp(w)
        \/ FinishTick(w)

SpecCandidates == InitCandidates /\ [][NextCandidates]_vars

\* The follow-up draft the engine stages for the original record e of
\* contact c.
StagedDraft(c, e) == FollowUpDraft(c, 2, e, 1, DraftUuid(1, e, 1))

\* The draft sender: two contacts with a sent initial record and a staged
\* follow-up draft each, the draft sender job firing in two workers, and
\* contacts unsubscribing at any moment.
InitDrafts ==
    /\ campaign_status = "completed"
    /\ contacts \in ContactTables
    /\ run = [r \in Runs |-> IdleRun]
    /\ started = 0
    /\ faults = 0
    /\ activations = 0
    /\ delivered = [c \in Contacts |-> 0]
    /\ overlapped = FALSE
    /\ FollowUpIdle
    /\ email_templates = <<[is_primary |-> TRUE], [is_primary |-> FALSE]>>
    /\ sent_emails = <<InitialRecord(1, "sent", 1), InitialRecord(2, "sent", 1),
                       StagedDraft(1, 1), StagedDraft(2, 2)>>
    /\ app_env = "production"
    /\ SchedulersIdle
    /\ PromotersIdle
    /\ TrackingIdle
    /\ sender = [d \in Senders |-> IdleSender]
    /\ handed = [e \in Ids(sent_emails) |-> 0]
    /\ unsub_staged = {}
    /\ accepted = [e \in Ids(sent_emails) |-> 0]
    /\ senders_overlapped = FALSE

NextDrafts ==
    \/ \E c \in Contacts : Unsubscribe(c)
    \/ \E d \in Senders :
        \/ SelectPending(d)
        \/ MissingContact(d)
        \/ MarkSending(d)
        \/ SendSingleEmail(d)
        \/ RecordOutcome(d)
        \/ HandleException(d)

SpecDrafts == InitDrafts /\ [][NextDrafts]_vars

\* The draft sender and the opens of the mails it sends: contact 2 with a
\* sent initial record and a staged follow-up draft, whose body carries the
\* pixel of the token the engine stored; the draft sender job firing in two
\* workers; the recipient opening a mail the transport accepted.
InitDraftOpens ==
    /\ campaign_status = "completed"
    /\ contacts \in ContactTables
    /\ run = [r \in Runs |-> IdleRun]
    /\ started = 0
    /\ faults = 0
    /\ activations = 0
    /\ delivered = [c \in Contacts |-> 0]
    /\ overlapped = FALSE
    /\ FollowUpIdle
    /\ email_templates = <<[is_primary |-> TRUE], [is_primary |-> FALSE]>>
    /\ sent_emails = <<InitialRecord(2, "sent", 1), StagedDraft(2, 1)>>
    /\ app_env = "production"
    /\ SchedulersIdle
    /\ PromotersIdle
    /\ opens = [e \in Ids(sent_emails) |-> NoOpens]
    /\ open_requests = 0
    /\ pixel_reply = NoReply
    /\ open_reads = [q \in OpenRequesters |-> NoRead]
    /\ sender = [d \in Senders |-> IdleSender]
    /\ handed = [e \in Ids(sent_emails) |-> 0]
    /\ unsub_staged = {}
    /\ accepted = [e \in Ids(sent_emails) |-> 0]
    /\ senders_overlapped = FALSE

\* The recipient opens the follow-up mail of record e, which the transport
\* accepted: the pixel the engine put in the body when it staged the draft
\* is requested, with the token the engine stored.
OpenDeliveredMail(e, ip) ==
    /\ accepted[e] > 0
    /\ RecordEmailOpened(
           DraftUuid(1, sent_emails[e].follows_up_on_email_id, 1), ip)

NextDraftOpens ==
    \/ \E e \in Ids(sent_emails) : \E ip \in IpAddresses :
         OpenDeliveredMail(e, ip)
    \/ \E d \in Senders :
        \/ SelectPending(d)
        \/ MissingContact(d)
        \/ MarkSending(d)
        \/ SendSingleEmail(d)
        \/ RecordOutcome(d)
        \/ HandleException(d)

SpecDraftOpens == InitDraftOpens /\ [][NextDraftOpens]_vars

\* A rule that follows up on the mails of the follow-up template of the
\* first rule.
ChainRule(condition, delay_days) ==
    [ original_email_template_id  |-> 2,
      follow_up_email_template_id |-> 3,
      delay_days                  |-> delay_days,
      condition                   |-> condition,
      is_active                   |-> TRUE ]

\* The follow-up of the original record e of contact c under rule 1, as the
\* draft sender leaves it once sent.
SentFollowUp(c, e, status, sent_at) ==
    [StagedDraft(c, e) EXCEPT !.status = status, !.sent_at = sent_at,
                              !.tracking_pixel_id = <<1, e, 0, 0>>]

\* Rules in a chain: a sent initial record of each contact, the follow-up of
\* the second already sent, a rule on the initial template and a rule on
\* the follow-up template of the first, and the follow-up job firing.
InitChains ==
    /\ campaign_status = "completed"
    /\ email_templates = <<[is_primary |-> TRUE], [is_primary |-> FALSE],
                           [is_primary |-> FALSE]>>
    /\ contacts = [c \in Contacts |->
                     [has_email |-> TRUE, unsubscribed |-> FALSE]]
    /\ sent_emails \in
         { <<InitialRecord(1, "sent", 1), InitialRecord(2, "sent", 1),
             SentFollowUp(2, 2, s, 1)>> : s \in {"sent", "opened"} }
    /\ run = [r \in Runs |-> IdleRun]
    /\ started = 0
    /\ faults = 0
    /\ activations = 0
    /\ delivered = [c \in Contacts |-> 0]
    /\ overlapped = FALSE
    /\ rule_reply = NoRuleReply
    /\ follow_up_rules \in
         { <<Rule("not_opened_within_delay", 2), ChainRule(cond, 2)>> :
             cond \in {"not_opened_within_delay", "not_clicked_within_delay",
                       "sent_anyway"} }
    /\ now = 3
    /\ tick = [w \in Tickers |-> IdleTick]
    /\ hist = NoHist
    /\ app_env = "production"
    /\ SchedulersIdle
    /\ PromotersIdle
    /\ TrackingIdle
    /\ DraftsIdle

NextChains ==
    \/ Advance
    \/ \E w \in Tickers :
        \/ StartTick(w)
        \/ LoadInitialEmails(w)
        \/ CheckFollowUp(w)
        \/ CreateFollowUp(w)
        \/ FinishTick(w)

SpecChains == InitChains /\ [][NextChains]_vars

\* The rules of a campaign: requests create and update rules, with any
\* delay and condition string, while the follow-up job fires in one worker
\* over a ledger with an opened initial record of contact 1.
InitRules ==
    /\ campaign_status = "completed"
    /\ email_templates = <<[is_primary |-> TRUE], [is_primary |-> FALSE]>>
    /\ contacts = [c \in Contacts |->
                     [has_email |-> TRUE, unsubscribed |-> FALSE]]
    /\ sent_emails = <<InitialRecord(1, "opened", 1)>>
    /\ run = [r \in Runs |-> IdleRun]
    /\ started = 0
    /\ faults = 0
    /\ activations = 0
    /\ delivered = [c \in Contacts |-> 0]
    /\ overlapped = FALSE
    /\ rule_reply = NoRuleReply
    /\ follow_up_rules = <<>>
    /\ now = 3
    /\ tick = [w \in Tickers |-> IdleTick]
    /\ hist = NoHist
    /\ app_env = "production"
    /\ SchedulersIdle
    /\ PromotersIdle
    /\ TrackingIdle
    /\ DraftsIdle

NextRules ==
    \/ \E delay_days \in Delays : \E condition \in Conditions :
         CreateRule(1, 2, delay_days, condition, TRUE)
    \/ \E rule_id \in 1..MaxRules :
       \E delay_days \in Passed(Delays) \cup {Unset} :
       \E condition \in Passed(Conditions) \cup {Unset} :
       \E is_active \in Passed(BOOLEAN) \cup {Unset} :
         UpdateRule(rule_id, delay_days, condition, is_active)
    \/ StartTick(1)
    \/ LoadInitialEmails(1)
    \/ CheckFollowUp(1)
    \/ CreateFollowUp(1)
    \/ FinishTick(1)

SpecRules == InitRules /\ [][NextRules]_vars

\* The rendering of templates: any template of a few parts is rendered for
\* any contact on each rendering path.
InitRender ==
    /\ DispatchIdle
    /\ FollowUpIdle
    /\ email_templates = <<[is_primary |-> TRUE], [is_primary |-> FALSE]>>
    /\ sent_emails = <<>>
    /\ app_env = "production"
    /\ SchedulersIdle
    /\ PromotersIdle
    /\ TrackingIdle
    /\ DraftsIdle

NextRender ==
    \/ \E template \in Templates(MaxParts) : \E contact \in RenderContacts :
        \/ RenderInitial(template, contact)
        \/ RenderFollowUp(template, contact)
    \/ RenderDraft

SpecRender == InitRender /\ [][NextRender]_vars

\* Concurrent pixel requests: a ledger with a sent record of each contact,
\* requests for their tokens served two at a time, each in its own session,
\* and time passing between the steps.
InitOpenRace ==
    /\ DispatchIdle
    /\ FollowUpIdle
    /\ email_templates = <<[is_primary |-> TRUE]>>
    /\ sent_emails \in
         { <<InitialRecord(1, s, 1), InitialRecord(2, "sent", 1)>> :
             s \in {"sent", "delivered", "clicked"} }
    /\ app_env = "production"
    /\ SchedulersIdle
    /\ PromotersIdle
    /\ opens = <<NoOpens, NoOpens>>
    /\ open_requests = 0
    /\ pixel_reply = NoReply
    /\ open_reads = [q \in OpenRequesters |-> NoRead]
    /\ DraftsIdle

NextOpenRace ==
    \/ Advance
    \/ \E q \in OpenRequesters :
        \/ \E c \in Contacts \cup {NULL} : \E ip \in IpAddresses \cup {NULL} :
             SelectEmailRecord(q, Uuid(0, c), ip)
        \/ ApplyOpenUpdate(q)

SpecOpenRace == InitOpenRace /\ [][NextOpenRace]_vars

\* ------------------------------------------------------ claims: dispatch

\* The committed initial records (no follows_up_on reference) of contact c
\* whose status is a successful one.
SuccessfulInitialRecords(c) ==
    {e \in Ids(sent_emails) :
        /\ sent_emails[e].contact_id = c
        /\ sent_emails[e].follows_up_on_email_id = NULL
        /\ sent_emails[e].status \in SuccessStatuses}

\* C1: after any sequence or interleaving of dispatch runs, every contact has
\* at most one initial ledger record in a successful status.
C1_AtMostOneSuccessfulInitial ==
    \A c \in Contacts : Cardinality(SuccessfulInitialRecords(c)) <= 1

\* C2: across any sequence of dispatch runs (no two in flight together),
\* failed writes and failed batch commits included, the transport delivers
\* the initial message to each contact at most once.
C2_DeliveredAtMostOnce ==
    ~overlapped => \A c \in Contacts : delivered[c] <= 1

\* The statuses the lifecycle documents for the end of a run.
DocumentedEndStatuses ==
    {"completed", "active_with_errors", "failed", "error_no_template"}

C11_FinalStatusByCounts ==
    \A r \in Runs :
        (run[r].pc = "returned" /\ run[r].began) =>
            run[r].end_status =
                CASE run[r].failed_sends = 0 -> "completed"
                  [] run[r].failed_sends > 0 /\ run[r].successful_sends > 0 ->
                       "active_with_errors"
                  [] OTHER -> "failed"

\* C11 witness: a run has returned with a success and a failure and left
\* the campaign active_with_errors.
C11_Witness ==
    \E r \in Runs :
        /\ run[r].pc = "returned"
        /\ run[r].began
        /\ run[r].successful_sends = 1
        /\ run[r].failed_sends = 1
        /\ run[r].end_status = "active_with_errors"
        /\ campaign_status = "active_with_errors"

\* C12: a step of a run that does not begin changes nothing: with the
\* campaign absent the run raises, with a status outside {active, sending,
\* pending} it returns (0, 0), and in both cases no send is made, no ledger
\* record is written and the campaign status stays as it was.
C12_NoEffectWithoutBegin ==
    [][\A r \in Runs :
         /\ (~InFlight(r) /\ run'[r] # run[r] /\ campaign_status = "none") =>
               /\ run'[r].pc = "raised"
               /\ run'[r].attempted = 0
               /\ UNCHANGED <<campaign_status, sent_emails, delivered>>
         /\ (/\ run[r].pc = "begin"
             /\ run[r].seen_status \notin {"active", "sending", "pending"}
             /\ run'[r] # run[r]) =>
               /\ run'[r].pc = "returned"
               /\ run'[r].successful_sends = 0
               /\ run'[r].failed_sends = 0
               /\ run'[r].attempted = 0
               /\ UNCHANGED <<campaign_status, sent_emails, delivered>>]_vars

\* C12 witness: a run has returned without beginning on a campaign whose
\* status is not a sendable one.
C12_Witness ==
    \E r \in Runs :
        /\ run[r].pc = "returned"
        /\ ~run[r].began
        /\ run[r].attempted = 0
        /\ campaign_status \notin {"none", "active", "sending", "pending"}

\* C13: at every instant at which a run has made a send and has not
\* finished, the committed campaign status is sending.
C13_SendingWhileSending ==
    \A r \in Runs :
        (InFlight(r) /\ run[r].attempted > 0) => campaign_status = "sending"

C15_RetriggerRecovers ==
    [][\A r \in Runs :
         (/\ run[r].pc = "begin"
          /\ run[r].seen_status \in {"error_no_template", "failed"}
          /\ Cardinality(PrimaryTemplates(email_templates)) = 1
          /\ run'[r] # run[r]
          /\ faults' = faults) =>
            /\ run'[r].began
            /\ campaign_status' = "sending"]_vars

C17_NoSendToUnsubscribed ==
    \A c \in Contacts :
        contacts[c].unsubscribed =>
            /\ delivered[c] = 0
            /\ \A r \in Runs :
                 /\ run[r].sends[c] = 0
                 /\ \A j \in 1..Len(run[r].targets) : run[r].targets[j] # c

TransportFails(r) ==
    /\ run[r].pc = "loop"
    /\ Len(run'[r].pending) = Len(run[r].pending) + 1
    /\ run'[r].pending[Len(run'[r].pending)].status = "failed"

\* C23: a transport failure (a timeout is one) adds one to the failed
\* counter and moves the run on to its next target; while a run loops and
\* when its loop is over, it has called the transport exactly once for each
\* addressed target it has passed, whatever the results were, and never for
\* a target it has not reached.
C23_FailureContinuesBatch ==
    /\ [](\A r \in Runs :
            run[r].pc \in {"loop", "commit"} =>
                \A j \in 1..Len(run[r].targets) :
                    run[r].sends[run[r].targets[j]] =
                        IF j < run[r].i /\ contacts[run[r].targets[j]].has_email
                        THEN 1 ELSE 0)
    /\ [][\A r \in Runs :
            TransportFails(r) =>
                /\ run'[r].failed_sends = run[r].failed_sends + 1
                /\ run'[r].successful_sends = run[r].successful_sends
                /\ run'[r].i = run[r].i + 1
                /\ run'[r].pc = IF run[r].i = Len(run[r].targets)
                                THEN "commit" ELSE "loop"]_vars

\* C23 witness: the loop of a run is over; the send to its first target
\* failed and the send to its second target was made and succeeded.
C23_Witness ==
    \E r \in Runs :
        /\ run[r].pc = "commit"
        /\ run[r].targets = <<1, 2>>
        /\ Len(run[r].pending) = 2
        /\ run[r].pending[1].status = "failed"
        /\ run[r].pending[2].status = "sent"
        /\ run[r].failed_sends = 1
        /\ run[r].successful_sends = 1
        /\ run[r].sends = [c \in Contacts |-> 1]

\* C24: when the batch of a run in which every transport send failed and no
\* persistence failure occurred has been settled, the ledger holds, for
\* each target the run attempted, the run's record with status failed and
\* the failure reason.
C24_FailedRecordsCommitted ==
    \A r \in Runs :
        ( /\ run[r].pc = "finalize"
          /\ faults = 0
          /\ run[r].successful_sends = 0 ) =>
            \A c \in Contacts :
                run[r].sends[c] > 0 =>
                    \E e \in Ids(sent_emails) :
                        /\ sent_emails[e].tracking_pixel_id = Uuid(run[r].n, c)
                        /\ sent_emails[e].contact_id = c
                        /\ sent_emails[e].status = "failed"
                        /\ sent_emails[e].status_reason = "error"

\* The run calls the transport for contact c in this step.
Sends(r, c) ==
    /\ run[r].pc = "loop"
    /\ run'[r].sends[c] = run[r].sends[c] + 1

\* C25: when a run calls the transport for a contact, the ledger already
\* holds a record with the tracking token the run embeds in the body.
C25_TokenStoredBeforeSend ==
    [][\A r \in Runs : \A c \in Contacts :
         Sends(r, c) =>
            \E e \in Ids(sent_emails) :
                sent_emails[e].tracking_pixel_id = Uuid(run[r].n, c)]_vars

\* C27: a persistence failure while a run records the outcome of a target
\* ends the loop of the run, which goes on to raise, and is not counted in
\* the failed counter.
C27_PersistenceFailureAbortsRun ==
    [][\A r \in Runs :
         ( /\ run[r].pc = "loop"
           /\ run'[r] # run[r]
           /\ faults' = faults + 1 ) =>
            /\ run'[r].pc = "batch_error"
            /\ run'[r].failed_sends = run[r].failed_sends]_vars

\* ----------------------------------------------------- claims: follow-ups

\* The committed records that follow up on record e and were triggered by
\* rule k.
FollowUpsOf(e, k) ==
    {f \in Ids(sent_emails) :
        /\ sent_emails[f].follows_up_on_email_id = e
        /\ sent_emails[f].triggered_by_rule_id = k}

\* C3: in every reachable ledger state, for each pair (original record,
\* rule) at most one record follows up on that original for that rule.
C3_AtMostOneFollowUpPerPair ==
    \A e \in Ids(sent_emails) : \A k \in Ids(follow_up_rules) :
        Cardinality(FollowUpsOf(e, k)) <= 1

C5_OneExecutionPerJob ==
    \A job \in Jobs :
        /\ \A w \in Workers : job_instances[w][job] <= 1
        /\ Cardinality(RunningInstances(job)) <= 1
        /\ job_log[job].fired = job_log[job].executed + job_log[job].skipped

\* The job executions that are running and hold a session.
SessionHolders ==
    {x \in Workers \X Jobs :
        job_instances[x[1]][x[2]] > 0 /\ job_db[x[1]][x[2]] # NULL}

\* C28: the open sessions are exactly those held by the job executions
\* that are running (an execution that ended, in whichever way, has closed
\* the session it acquired), and no two executions hold the same session.
C28_SessionsReleased ==
    /\ db_sessions.open = {job_db[x[1]][x[2]] : x \in SessionHolders}
    /\ \A x, y \in SessionHolders :
         job_db[x[1]][x[2]] = job_db[y[1]][y[2]] => x = y
    /\ \A w \in Workers : \A job \in Jobs :
         job_instances[w][job] = 0 => job_db[w][job] = NULL

\* C28 witness: executions holding a session have ended in each of the
\* three ways, and no session is open.
C28_Witness ==
    /\ db_sessions.exits = {"completed", "raised", "incomplete_config"}
    /\ db_sessions.made = 3
    /\ db_sessions.open = {}

\* ------------------------------------------------------ claims: templates

\* C6: in every committed state at most one template of the campaign is
\* primary, and a promotion over an existing primary that no other request
\* overlapped leaves the new template as the only primary.
C6_AtMostOnePrimary ==
    /\ Cardinality(PrimaryTemplates(email_templates)) <= 1
    /\ \A p \in Promoters :
         (/\ promo[p].pc = "returned"
          /\ promo[p].op = "finalize"
          /\ promo[p].alone
          /\ promo[p].before # {}) => promo[p].after = {promo[p].new_id}

\* C7: a promotion whose save of the new template failed, and which no other
\* request overlapped, leaves the templates that were primary before it
\* still primary.
C7_PromotionAtomic ==
    \A p \in Promoters :
        (/\ promo[p].pc = "raised"
         /\ promo[p].op = "finalize"
         /\ promo[p].save_failed
         /\ promo[p].alone) => promo[p].after = promo[p].before

\* ------------------------------------------------------- claims: tracking

\* C8: after k >= 1 recorded open events of a record its open_count is k,
\* its opened_at is the time of the first of them and its last_opened_at
\* the time of the latest; and no step lowers a record's open_count.
C8_OpenCounters ==
    /\ [](\A e \in Ids(sent_emails) :
            opens[e].k >= 1 =>
                /\ sent_emails[e].open_count = opens[e].k
                /\ sent_emails[e].opened_at = opens[e].first
                /\ sent_emails[e].last_opened_at = opens[e].last)
    /\ [][\A e \in Ids(sent_emails) :
            sent_emails'[e].open_count >= sent_emails[e].open_count]_vars

\* C8 witness: a record has two recorded opens on different days.
C8_Witness ==
    \E e \in Ids(sent_emails) :
        /\ opens[e].k = 2
        /\ sent_emails[e].open_count = 2
        /\ sent_emails[e].opened_at < sent_emails[e].last_opened_at

\* The statuses the specification says an open event must not overwrite.
TerminalPriority ==
    {"clicked", "replied", "hard_bounced", "spam_complaint", "unsubscribed"}

\* C9: after an open event is recorded on a record, by either
\* implementation, the record's status is the one it had if that was in the
\* terminal-priority set, and opened otherwise.
C9_OpenKeepsTerminalPriority ==
    \A e \in Ids(sent_emails) :
        opens[e].k >= 1 =>
            sent_emails[e].status =
                IF opens[e].prior_status \in TerminalPriority
                THEN opens[e].prior_status
                ELSE "opened"

\* ----------------------------------------------------- claims: candidates

\* The records a tick appends to the ledger in a step.
NewRecords == (Len(sent_emails) + 1)..Len(sent_emails')

\* The rule a tick is about to fetch the initial emails of.
RuleAt(w) == follow_up_rules[tick[w].rules[tick[w].ri]]

\* A tick fetches the initial emails of its next rule in this step.
Fetches(w) ==
    /\ tick[w].pc = "rule"
    /\ tick'[w].processed_rules = tick[w].processed_rules + 1

\* C18: the initial emails a tick fetches for a rule include no record
\* whose contact is unsubscribed at that instant, and no tick writes a
\* follow-up draft for a contact that is unsubscribed at that instant.
C18_NoFollowUpToUnsubscribed ==
    [][/\ \A w \in Tickers :
            Fetches(w) =>
                \A j \in 1..Len(tick'[w].emails) :
                    ~contacts[sent_emails[tick'[w].emails[j]].contact_id]
                        .unsubscribed
       /\ \A f \in NewRecords :
            sent_emails'[f].follows_up_on_email_id # NULL =>
                ~contacts[sent_emails'[f].contact_id].unsubscribed]_vars

\* C18 witness: contact 1 is unsubscribed, its initial record qualifies for
\* the rule and is old enough, a tick has completed and has created nothing.
C18_Witness ==
    \E w \in Tickers :
        /\ tick[w].pc = "done"
        /\ tick[w].processed_rules = 1
        /\ tick[w].created = 0
        /\ contacts[1].unsubscribed
        /\ sent_emails[1].status = "sent"
        /\ sent_emails[1].sent_at = 1
        /\ Len(sent_emails) = 1

\* The statuses the rule table gives for a condition.
TableQualifies(condition, status) ==
    CASE condition = "not_opened_within_delay" ->
           status \in {"sent", "delivered", "hard_bounced", "soft_bounced"}
      [] condition = "not_clicked_within_delay" ->
           status \in {"sent", "delivered", "opened", "hard_bounced",
                       "soft_bounced"}
      [] condition = "sent_anyway" ->
           status \notin {"draft", "pending_send", "sending", "failed"}
      [] OTHER -> FALSE

\* A record that is old enough for the rule and otherwise eligible: an
\* initial record of the rule's original template, sent at or before now
\* minus the delay, whose contact is not unsubscribed.
OtherwiseEligible(e, rule) ==
    /\ sent_emails[e].email_template_id = rule.original_email_template_id
    /\ sent_emails[e].follows_up_on_email_id = NULL
    /\ sent_emails[e].sent_at # NULL
    /\ sent_emails[e].sent_at <= now - rule.delay_days
    /\ ~contacts[sent_emails[e].contact_id].unsubscribed

\* C20: for every condition and every status, the initial emails a tick
\* fetches for a rule are exactly the old enough and otherwise eligible
\* records whose status the rule table gives for the rule's condition.
C20_CandidatesByStatus ==
    [][\A w \in Tickers :
         Fetches(w) =>
            {tick'[w].emails[j] : j \in 1..Len(tick'[w].emails)} =
                {e \in Ids(sent_emails) :
                    /\ OtherwiseEligible(e, RuleAt(w))
                    /\ TableQualifies(RuleAt(w).condition,
                                      sent_emails[e].status)}]_vars

\* C20 witness: a tick holds the opened record as a candidate of a
\* not_clicked_within_delay rule.
C20_Witness ==
    \E w \in Tickers :
        /\ tick[w].pc = "email"
        /\ tick[w].emails = <<1>>
        /\ sent_emails[1].status = "opened"
        /\ follow_up_rules[1].condition = "not_clicked_within_delay"

\* The records a tick holds after fetching the initial emails of a rule.
Fetched(w) == {tick'[w].emails[j] : j \in 1..Len(tick'[w].emails)}

C26_EngineOnlyStagesDrafts ==
    [][/\ delivered' = delivered
       /\ handed' = handed
       /\ \A r \in Runs : run'[r].sends = run[r].sends
       /\ Len(sent_emails') >= Len(sent_emails)
       /\ \A e \in Ids(sent_emails) : sent_emails'[e] = sent_emails[e]
       /\ \A f \in NewRecords :
            /\ sent_emails'[f].status = "draft"
            /\ sent_emails'[f].sent_at = NULL
            /\ \E w \in Tickers :
                 /\ tick[w].pc = "create"
                 /\ sent_emails'[f].follows_up_on_email_id =
                      tick[w].emails[tick[w].ei]
                 /\ sent_emails'[f].triggered_by_rule_id =
                      tick[w].rules[tick[w].ri]
                 /\ sent_emails'[f].contact_id =
                      sent_emails[tick[w].emails[tick[w].ei]].contact_id]_vars

\* C26 witness: a tick has completed and the ledger holds the draft it
\* staged for record 2 under rule 1.
C26_Witness ==
    /\ \E w \in Tickers : tick[w].pc = "done" /\ tick[w].created >= 1
    /\ \E f \in Ids(sent_emails) :
         /\ sent_emails[f].status = "draft"
         /\ sent_emails[f].sent_at = NULL
         /\ sent_emails[f].follows_up_on_email_id = 2
         /\ sent_emails[f].triggered_by_rule_id = 1

\* A pixel request is served in this step.
Served == open_requests' = open_requests + 1

\* C29: the response to every pixel request is the same 1x1 image, with
\* status 200 and the no-cache headers, whether or not a record had the
\* token and whether or not recording the open failed or raised.
C29_FixedPixelResponse ==
    [][Served =>
         /\ pixel_reply'.response.status = "200"
         /\ pixel_reply'.response.media_type = "image/png"
         /\ pixel_reply'.response.content = "MINIMAL_PNG_BYTES"
         /\ pixel_reply'.response.cache_control = "no-cache, no-store"]_vars

\* C29 witness: a request whose token a record has was served while
\* recording the open raised.
C29_Witness ==
    /\ pixel_reply.token_known
    /\ pixel_reply.raised
    /\ ~pixel_reply.was_recorded
    /\ pixel_reply.response.status = "200"

\* The fields of a record an open event writes.
OpenFields(e) ==
    <<e.open_count, e.opened_at, e.last_opened_at, e.first_opened_ip,
      e.status>>

\* C30: a pixel request whose token no record has returns False and leaves
\* open_count, opened_at, last_opened_at, first_opened_ip and status of
\* every record as they were.
C30_UnknownTokenNoOp ==
    [][(Served /\ ~pixel_reply'.token_known) =>
         /\ ~pixel_reply'.was_recorded
         /\ Len(sent_emails') = Len(sent_emails)
         /\ \A e \in Ids(sent_emails) :
              OpenFields(sent_emails'[e]) = OpenFields(sent_emails[e])]_vars

\* C30 witness: a request with an unknown token has been served after an
\* open was recorded on record 1.
C30_Witness ==
    /\ open_requests = 2
    /\ ~pixel_reply.token_known
    /\ ~pixel_reply.was_recorded
    /\ sent_emails[1].open_count = 1

\* ---------------------------------------------------- claims: draft sender

\* C19: a follow-up draft whose contact's unsubscribed flag was set while
\* the draft was staged, before the draft sender processed it, is never
\* handed to the transport by the draft sender.
C19_NoSendAfterUnsubscribe ==
    \A e \in unsub_staged : handed[e] = 0

\* The records of the batch of sender d that it has not started on.
Unstarted(d) ==
    {sender[d].batch[j] : j \in {k \in 1..Len(sender[d].batch) :
                                   \/ k > sender[d].bi
                                   \/ k = sender[d].bi /\ sender[d].pc = "email"}}

\* C31: a record written by the draft sender has a sent timestamp if and
\* only if a transport send of it succeeded: marked sent it has sent_at,
\* marked failed it has none.
C31_SentAtIffSendSucceeded ==
    (\A d \in Senders : ~SenderInFlight(d)) =>
        \A e \in Ids(sent_emails) :
            handed[e] > 0 =>
                /\ (sent_emails[e].sent_at # NULL) <=> (accepted[e] > 0)
                /\ sent_emails[e].status = "sent" =>
                      sent_emails[e].sent_at # NULL
                /\ sent_emails[e].status = "failed" =>
                      sent_emails[e].sent_at = NULL

\* C35: while the draft sender jobs have not overlapped, no record is
\* handed to the transport twice, and the records a job has selected and
\* not started on are staged drafts no send was attempted for.
C35_DraftHandedAtMostOnce ==
    ~senders_overlapped =>
        /\ \A e \in Ids(sent_emails) : handed[e] <= 1
        /\ \A d \in Senders : \A e \in Unstarted(d) :
              /\ handed[e] = 0
              /\ sent_emails[e].status \in {"draft", "pending_send"}

\* Two jobs ran one after the other and each attempted a send; a record
\* the first attempted is failed or left "sending" when the second selects.
C35_Witness ==
    /\ ~senders_overlapped
    /\ \A d \in Senders : sender[d].pc = "done" /\ sender[d].marked # {}
    /\ \E e \in sender[1].marked :
          sent_emails[e].status \in {"sending", "failed"}

\* C38: once the draft sender jobs have ended, no record is left in status
\* "sending": every record a job marked "sending" is sent or failed.
C38_NoRecordLeftSending ==
    (\A d \in Senders : ~SenderInFlight(d)) =>
        \A e \in Ids(sent_emails) : sent_emails[e].status # "sending"

\* C36: a record whose status has become "opened" is never afterwards set
\* to "sent" or "sending" by the draft sender.
C36_OpenedNeverDowngraded ==
    [][\A e \in Ids(sent_emails) :
          sent_emails[e].status = "opened" =>
              sent_emails'[e].status \notin {"sent", "sending"}]_vars

\* ------------------------------------------------- claims: concurrent opens

\* C37: once the pixel requests in flight have finished, every open event
\* recorded for a record is counted in its open_count, and its opened_at is
\* the time of the earliest of them.
C37_ConcurrentOpensCounted ==
    (\A q \in OpenRequesters : open_reads[q].pc = "idle") =>
        \A e \in Ids(sent_emails) :
            /\ sent_emails[e].open_count = opens[e].k
            /\ sent_emails[e].opened_at = opens[e].first

\* ------------------------------------------------ claims: follow-up chains

\* C39: every record that follows up on another follows up on an initial
\* record, one that follows up on nothing: no chain is longer than one.
C39_NoFollowUpChains ==
    \A f \in Ids(sent_emails) :
        sent_emails[f].follows_up_on_email_id # NULL =>
            sent_emails[sent_emails[f].follows_up_on_email_id]
                .follows_up_on_email_id = NULL

\* A tick has gone through the rule on the initial template, staging a
\* draft, and through the rule on the follow-up template, with a sent
\* follow-up of that template old enough in the ledger.
C39_Witness ==
    /\ \E w \in Tickers : tick[w].pc = "done" /\ tick[w].processed_rules = 2
    /\ \E f \in Ids(sent_emails) :
          /\ sent_emails[f].status = "draft"
          /\ sent_emails[f].follows_up_on_email_id = 1
    /\ \E e \in Ids(sent_emails) :
          /\ sent_emails[e].follows_up_on_email_id # NULL
          /\ sent_emails[e].email_template_id =
                follow_up_rules[2].original_email_template_id
          /\ sent_emails[e].sent_at # NULL
          /\ sent_emails[e].sent_at <= now - follow_up_rules[2].delay_days
          /\ QualifyingStatus(follow_up_rules[2].condition,
                              sent_emails[e].status)

\* ----------------------------------------------------------- claims: rules

\* C32: every rule persisted has a known condition and a delay that is not
\* negative, and the engine never evaluates a rule with an unknown
\* condition.
C32_UnknownConditionRejected ==
    /\ \A k \in Ids(follow_up_rules) :
          /\ follow_up_rules[k].condition \in ValidConditions
          /\ follow_up_rules[k].delay_days >= 0
    /\ \A w \in Tickers :
          tick[w].pc \in {"email", "create"} =>
              follow_up_rules[tick[w].rules[tick[w].ri]].condition
                  \in ValidConditions

\* --------------------------------------------------- claims: personalization

\* The number of occurrences of key in content.
RECURSIVE Count(_, _)
Count(key, content) ==
    IF Len(content) < Len(key) THEN 0
    ELSE IF SubSeq(content, 1, Len(key)) = key
    THEN 1 + Count(key, SubSeq(content, Len(key) + 1, Len(content)))
    ELSE Count(key, Tail(content))

\* C33: the initial send and the follow-up engine leave every token that is
\* not of the enumerated set where it is in the text, and raise no error.
C33_UnknownTokensVerbatim ==
    rendering.path \in {"initial", "follow_up"} =>
        /\ ~rendering.raised
        /\ Count(Token("nickname"), rendering.output) =
             Count(Token("nickname"), rendering.template)
        /\ Replace(rendering.output, Token("nickname"), <<"?">>) =
             (IF rendering.path = "initial"
              THEN PersonalizeContent(
                       Replace(rendering.template, Token("nickname"), <<"?">>),
                       rendering.contact)
              ELSE FollowUpPersonalize(
                       Replace(rendering.template, Token("nickname"), <<"?">>),
                       rendering.contact))

\* A template with an unknown token next to a token whose field is missing
\* has been rendered for the initial send.
C33_Witness ==
    /\ rendering.path = "initial"
    /\ rendering.template = Token("nickname") \o Token("city")
    /\ rendering.contact.city = None
    /\ rendering.output = Token("nickname")

\* The tokens of the enumerated set that the templates of the model use.
EnumeratedTokens == {"first_name", "last_name", "company_name", "city"}

\* C34: on every rendering path a token of the enumerated set whose field
\* the contact lacks is replaced by a default that is not empty ("there"
\* for first_name, "your company" for company_name), never by an empty
\* string or "None", and is never left in the text.
C34_MissingFieldsGetDefaults ==
    \A name \in EnumeratedTokens :
        (/\ rendering.path # "none"
         /\ rendering.template = Token(name)
         /\ Falsy(rendering.contact[name])) =>
            /\ ~rendering.raised
            /\ rendering.output \notin {<<>>, <<"None">>}
            /\ \A i \in 1..Len(rendering.output) :
                  rendering.output[i] \notin {"{", "}"}
            /\ name = "first_name" => rendering.output = <<"there">>
            /\ name = "company_name" => rendering.output = <<"your company">>

====
